---- MODULE Spec2Model ----
(***************************************************************************)
(* The IKE_SA_INIT task of libcharon (sa/ikev2/tasks/ike_init.c): one      *)
(* task object, as initiator or responder, for a fresh IKE_SA or for the   *)
(* rekeying of one, driven hook by hook by the task manager.               *)
(***************************************************************************)
EXTENDS Integers, Sequences, FiniteSets, TLC

(* ------------------------------------------------------------------ *)
(* Program constants                                                   *)
(* ------------------------------------------------------------------ *)

MAX_RETRIES == 5

KEY_EXCHANGE_METHOD == 4
ADDITIONAL_KEY_EXCHANGE_1 == 6
ADDITIONAL_KEY_EXCHANGE_7 == 12

MAX_KEY_EXCHANGES == ADDITIONAL_KEY_EXCHANGE_7 - ADDITIONAL_KEY_EXCHANGE_1 + 2

KE_NONE == 0

\* notify types (the numbers of RFC 7296 and its extensions)
NO_PROPOSAL_CHOSEN == 14
INVALID_KE_PAYLOAD == 17
INVALID_SYNTAX == 7
NAT_DETECTION_SOURCE_IP == 16388
COOKIE == 16390
REDIRECT_SUPPORTED == 16406
REDIRECT == 16407
REDIRECTED_FROM == 16408
CHILDLESS_IKEV2_SUPPORTED == 16418
FRAGMENTATION_SUPPORTED == 16430
SIGNATURE_HASH_ALGORITHMS == 16431
USE_PPK == 16435
MAX_ERROR_NOTIFY == 16383

(* ------------------------------------------------------------------ *)
(* Bounds of the model                                                 *)
(* ------------------------------------------------------------------ *)

\* longest nonce, in bytes, given to get_lower_nonce
MaxNonceLen == 3

(* ------------------------------------------------------------------ *)
(* Values                                                              *)
(* ------------------------------------------------------------------ *)

\* key exchange methods the peers may name (MODP_2048, CURVE_25519)
Methods == {14, 31}

TransformTypes ==
    {KEY_EXCHANGE_METHOD} \cup (ADDITIONAL_KEY_EXCHANGE_1 .. ADDITIONAL_KEY_EXCHANGE_7)

\* the SPI a proposal carries is held under this key, next to its transforms
SpiKey == 0
\* the SPI this end allocated for the IKE_SA of the task, and the one the peer
\* allocated for it
OwnSpi == 5
PeerSpi == 7

\* a proposal_t, as far as the task reads it: the algorithm of each key
\* exchange transform type, KE_NONE where the proposal has no such transform,
\* and its SPI, 0 where it has none
Prop(ke, a1, a2, a3) ==
    [t \in TransformTypes \cup {SpiKey} |->
        CASE t = KEY_EXCHANGE_METHOD -> ke
          [] t = ADDITIONAL_KEY_EXCHANGE_1 -> a1
          [] t = ADDITIONAL_KEY_EXCHANGE_1 + 1 -> a2
          [] t = ADDITIONAL_KEY_EXCHANGE_1 + 2 -> a3
          [] OTHER -> KE_NONE]

get_spi(p) == p[SpiKey]
set_spi(p, spi) == [p EXCEPT ![SpiKey] = spi]

Proposals ==
    { Prop(14, KE_NONE, KE_NONE, KE_NONE),
      Prop(14, 31, KE_NONE, KE_NONE),
      Prop(31, KE_NONE, 14, 31) }

\* chunk_t values: byte strings, the empty one standing for chunk_empty
Cookies == { <<>>, <<1>>, <<2>> }
\* the nonces a generator allocates, and those a peer sends (none, or its own)
TaskNonces == { <<1>>, <<3>> }
PeerNonces == { <<>>, <<2>> }

\* an optional object (a pointer that may be NULL) is a sequence of length <= 1
NULL == <<>>
Ptr(x) == <<x>>

\* status_t
SUCCESS == "SUCCESS"
NEED_MORE == "NEED_MORE"
FAILED == "FAILED"
\* the process ended by a NULL dereference inside a collaborator
CRASHED == "CRASHED"

IKE_SA_INIT == "IKE_SA_INIT"
CREATE_CHILD_SA == "CREATE_CHILD_SA"
IKE_INTERMEDIATE == "IKE_INTERMEDIATE"
IKE_FOLLOWUP_KE == "IKE_FOLLOWUP_KE"
IKE_AUTH == "IKE_AUTH"

(* ------------------------------------------------------------------ *)
(* Messages                                                            *)
(* ------------------------------------------------------------------ *)

\* a notify payload: its type and its notification data, read as a group
\* (INVALID_KE_PAYLOAD), as a chunk (COOKIE, the nonce of REDIRECT), as a
\* gateway identity that parses or not (REDIRECT, REDIRECTED_FROM) and as a
\* list of hash algorithms that has one for IKEv2 or not
\* (SIGNATURE_HASH_ALGORITHMS)
Notify(type, group, chunk, gw) ==
    [type |-> type, group |-> group, chunk |-> chunk, gw |-> gw]

PlainNotify(type) == Notify(type, KE_NONE, <<>>, FALSE)

\* the notifies a responder may put into a response
ResponseNotifies ==
    { Notify(INVALID_KE_PAYLOAD, g, <<>>, FALSE) : g \in Methods }
      \cup { Notify(COOKIE, KE_NONE, c, FALSE) : c \in Cookies }
      \cup { Notify(REDIRECT, KE_NONE, n, TRUE) : n \in {<<1>>, <<2>>} }
      \cup { Notify(REDIRECT, KE_NONE, <<>>, FALSE) }
      \cup { PlainNotify(NO_PROPOSAL_CHOSEN), PlainNotify(NAT_DETECTION_SOURCE_IP) }

\* the notifies an initiator may put into a request
RequestNotifies ==
    { PlainNotify(REDIRECT_SUPPORTED), PlainNotify(NAT_DETECTION_SOURCE_IP),
      Notify(REDIRECTED_FROM, KE_NONE, <<>>, TRUE),
      Notify(REDIRECTED_FROM, KE_NONE, <<>>, FALSE) }

\* a received KE payload: its method, and whether its public value is one
\* the key exchange object accepts
KePayloads ==
    { [method |-> 14, valid |-> TRUE], [method |-> 14, valid |-> FALSE],
      [method |-> 31, valid |-> TRUE] }

\* the SA, KE and Nonce payloads of a message; sa is the proposal that
\* select_proposal() picks from the SA payload, NULL if it picks none or
\* the message has no SA payload
Bodies ==
    [sa : {NULL} \cup {Ptr(p) : p \in Proposals},
     ke : {NULL} \cup {Ptr(k) : k \in KePayloads},
     nonce : PeerNonces]

EmptyBody == [sa |-> NULL, ke |-> NULL, nonce |-> <<>>]
FullBody == [sa |-> Ptr(Prop(14, 31, KE_NONE, KE_NONE)),
             ke |-> Ptr([method |-> 14, valid |-> TRUE]), nonce |-> <<2>>]

Msg(xchg, notifies, body) ==
    [xchg |-> xchg, notifies |-> notifies,
     sa |-> body.sa, ke |-> body.ke, nonce |-> body.nonce]

NoMsg == Msg("NONE", <<>>, EmptyBody)

NotifySeqs(S, n) == UNION { [1..k -> S] : k \in 0..n }

\* responses to the first request: up to two notifies without SA, KE and
\* Nonce payload, a third notify in front of a REDIRECT and a COOKIE, one
\* notify in front of a complete body, among them the last error type and the
\* first status type, and any body alone or behind a notify that process_i()
\* may skip
InitResponses(xchg) ==
    { Msg(xchg, ns, EmptyBody) : ns \in NotifySeqs(ResponseNotifies, 2) }
      \cup { Msg(xchg, << n, Notify(REDIRECT, KE_NONE, <<1>>, TRUE),
                          Notify(COOKIE, KE_NONE, c, FALSE) >>, EmptyBody) :
                n \in { Notify(INVALID_KE_PAYLOAD, 31, <<>>, FALSE),
                        Notify(COOKIE, KE_NONE, <<2>>, FALSE) },
                c \in Cookies \ {<<>>} }
      \cup { Msg(xchg, ns, FullBody) : ns \in NotifySeqs(ResponseNotifies, 1) }
      \cup { Msg(xchg, << PlainNotify(ty) >>, FullBody) :
                ty \in {MAX_ERROR_NOTIFY, MAX_ERROR_NOTIFY + 1} }
      \cup { Msg(xchg, ns, b) :
                ns \in { <<>>, << PlainNotify(NAT_DETECTION_SOURCE_IP) >>,
                         << Notify(REDIRECT, KE_NONE, <<1>>, TRUE) >> },
                b \in Bodies }

InitRequests(xchg) ==
    { Msg(xchg, ns, b) : ns \in NotifySeqs(RequestNotifies, 1), b \in Bodies }

\* messages of the follow-up exchanges carry a KE payload, or lack it
MultiKeBodies == { b \in Bodies : b.sa = NULL /\ b.nonce = <<>> }

\* a response has the exchange type of its request; of its notifies the
\* task reads COOKIE and REDIRECT
MultiKeResponses(xchg) ==
    { Msg(xchg, ns, b) :
         ns \in NotifySeqs({ n \in ResponseNotifies : n.type \in {COOKIE, REDIRECT} }, 1),
         b \in MultiKeBodies }

\* a request of the expected exchange type, or of another one
MultiKeRequests ==
    { Msg(x, <<>>, b) : x \in {IKE_INTERMEDIATE, IKE_FOLLOWUP_KE, IKE_AUTH},
                        b \in MultiKeBodies }

\* the notifies that negotiate an extension
ExtNotifies ==
    { PlainNotify(FRAGMENTATION_SUPPORTED), PlainNotify(USE_PPK),
      PlainNotify(REDIRECT_SUPPORTED), PlainNotify(CHILDLESS_IKEV2_SUPPORTED),
      Notify(SIGNATURE_HASH_ALGORITHMS, KE_NONE, <<>>, TRUE),
      Notify(SIGNATURE_HASH_ALGORITHMS, KE_NONE, <<>>, FALSE),
      Notify(REDIRECTED_FROM, KE_NONE, <<>>, TRUE),
      Notify(REDIRECTED_FROM, KE_NONE, <<>>, FALSE) }

\* SA, KE and Nonce payload of an exchange without additional key exchanges
SingleBody == [sa |-> Ptr(Prop(31, KE_NONE, KE_NONE, KE_NONE)),
               ke |-> Ptr([method |-> 31, valid |-> TRUE]), nonce |-> <<2>>]

\* first messages with at most one of these notifies, or with an unparsable
\* REDIRECTED_FROM next to another one, in front of the SA, KE and Nonce
\* payloads or alone
ExtMessages(xchg) ==
    { Msg(xchg, ns, b) :
         ns \in NotifySeqs(ExtNotifies, 1)
                  \cup { << Notify(REDIRECTED_FROM, KE_NONE, <<>>, FALSE), n >> :
                            n \in { PlainNotify(USE_PPK),
                                    PlainNotify(CHILDLESS_IKEV2_SUPPORTED),
                                    PlainNotify(REDIRECT_SUPPORTED) } },
         b \in {SingleBody, EmptyBody} }

\* payloads of the message under construction
Payload(pt, type, num, chunk, props) ==
    [pt |-> pt, type |-> type, num |-> num, chunk |-> chunk, props |-> props]

NotifyPld(type, num, chunk) == Payload("NOTIFY", type, num, chunk, <<>>)
SaPld(props) == Payload("SA", 0, 0, <<>>, props)
KePld(method) == Payload("KE", 0, method, <<>>, <<>>)
NoncePld(nonce) == Payload("NONCE", 0, 0, nonce, <<>>)

\* the message handed to a build hook: empty, its exchange type set by the
\* task manager
NewMessage(xchg) == [xchg |-> xchg, payloads |-> <<>>]

add_payload(message, pld) ==
    [message EXCEPT !.payloads = Append(@, pld)]

\* message->add_notify(): flush drops the payloads added so far
add_notify(message, flush, type, num, chunk) ==
    add_payload(IF flush THEN [message EXCEPT !.payloads = <<>>] ELSE message,
                NotifyPld(type, num, chunk))

(* ------------------------------------------------------------------ *)
(* The task (private_ike_init_t) and its collaborators                 *)
(* ------------------------------------------------------------------ *)

KexSlots == 0 .. (MAX_KEY_EXCHANGES - 1)

NoKex == [type |-> 0, method |-> KE_NONE, done |-> FALSE]

\* the settings ike_init_create() reads, and their defaults
Settings == [signature_authentication : BOOLEAN, follow_redirects : BOOLEAN]

DefaultSettings == [signature_authentication |-> TRUE, follow_redirects |-> TRUE]

\* the state after ike_init_create(): old_sa tells whether an old IKE_SA is
\* being rekeyed
ike_init_create(initiator, old_sa, settings) ==
    [initiator |-> initiator,
     old_sa |-> old_sa,
     signature_authentication |-> settings.signature_authentication,
     follow_redirects |-> settings.follow_redirects,
     key_exchanges |-> [i \in KexSlots |-> NoKex],
     ke_index |-> 0,
     ke_method |-> KE_NONE,
     ke |-> NULL,
     kes |-> <<>>,
     ke_failed |-> FALSE,
     my_nonce |-> <<>>,
     other_nonce |-> <<>>,
     proposal |-> NULL,
     cookie |-> <<>>,
     retry |-> 0,
     build |-> IF initiator THEN "build_i" ELSE "build_r",
     process |-> IF initiator THEN "process_i" ELSE "process_r",
     pre_process |-> IF initiator THEN "pre_process_i" ELSE "NULL",
     post_build |-> "NULL",
     post_process |-> "NULL"]

\* the IKE_SA, as far as the task writes it
\* the ike_sa_id_t of the IKE_SA a task is created for: an initiator has
\* allocated the initiator SPI, a responder the responder SPI; the SPI of the
\* peer is known from the header of its request unless the IKE_SA is the new
\* one of a rekeying, which learns it from the proposal
IkeSaId(initiator, old_sa) ==
    [initiator_spi |-> IF initiator THEN OwnSpi ELSE IF old_sa THEN 0 ELSE PeerSpi,
     responder_spi |-> IF initiator THEN 0 ELSE OwnSpi]

\* what the IKE and peer configuration, the credential manager and the crypto
\* factory answer to build_payloads(): fragmentation other than
\* FRAGMENTATION_NO, childless other than CHILDLESS_NEVER, a PPK id in the
\* peer config, a PPK among the shared keys, a hash algorithm for IKEv2
IkeCfgs ==
    [fragmentation : BOOLEAN, childless : BOOLEAN, ppk_id : BOOLEAN,
     ppk : BOOLEAN, hashes : BOOLEAN]

\* a configuration that asks for no extension
PlainCfg ==
    [fragmentation |-> FALSE, childless |-> FALSE, ppk_id |-> FALSE,
     ppk |-> FALSE, hashes |-> FALSE]

NewIkeSa(initiator, old_sa) ==
    [state |-> "IKE_CREATED", ext |-> {}, proposal |-> NULL,
     id |-> IkeSaId(initiator, old_sa),
     cfg |-> PlainCfg, redirected_from |-> FALSE]

\* the IKE_SAs a task may be created for: any configuration; the IKE_SA of an
\* initiator may be one that a gateway redirected here
IkeSas(initiator, old_sa) ==
    { [NewIkeSa(initiator, old_sa) EXCEPT !.cfg = c, !.redirected_from = r] :
         c \in IkeCfgs, r \in (IF initiator THEN BOOLEAN ELSE {FALSE}) }

\* the proposals of the IKE config, in configured order
CfgProposals == << Prop(14, 31, KE_NONE, KE_NONE), Prop(31, KE_NONE, KE_NONE, KE_NONE) >>

\* What the collaborators answer during one hook: whether create_ke() yields
\* an object, the group the configuration names, the nonce the generator
\* allocates (empty: none), whether the key exchange object yields its public
\* value for a KE payload, what derive_ike_keys() returns, and the answers of
\* redirect_on_init() and handle_redirect().
Env(create_ke, method, nonce, ke_payload, derive, redirect) ==
    [create_ke |-> create_ke, method |-> method, nonce |-> nonce,
     ke_payload |-> ke_payload, derive |-> derive, redirect |-> redirect]

\* the world a hook runs in: the task, its IKE_SA, the message being built
\* and the calls of derive_ike_keys() so far
World(t, sa, message, derived) ==
    [this |-> t, ike_sa |-> sa, message |-> message, derived |-> derived]

Ret(w, st) == [w |-> w, st |-> st]

\* chunk_equals(): NULL chunks equal nothing
chunk_equals(a, b) == a # <<>> /\ b # <<>> /\ a = b

\* a key_exchange_t: its method and whether the peer's public value is set
KeObject(method) == [method |-> method, pub |-> FALSE]

\* keymat->create_ke(): NULL for a method without implementation
create_ke(method, env) ==
    IF method \in Methods /\ env.create_ke THEN Ptr(KeObject(method)) ELSE NULL

\* proposal->has_transform(KEY_EXCHANGE_METHOD, method)
has_transform(p, method) == p[KEY_EXCHANGE_METHOD] = method

exchange_type_multi_ke(t) ==
    IF t.old_sa THEN IKE_FOLLOWUP_KE ELSE IKE_INTERMEDIATE

\* nonceg->allocate_nonce(): a nonce the task does not hold yet
allocate_nonce(held) ==
    CHOOSE n \in TaskNonces : n # held /\ (held = <<>> => n = <<1>>)

\* generate_nonce(): [ok, this]; env.nonce tells whether there is a generator
\* and it allocates
generate_nonce(t, env) ==
    IF ~env.nonce
    THEN [ok |-> FALSE, this |-> t]
    ELSE [ok |-> TRUE, this |-> [t EXCEPT !.my_nonce = allocate_nonce(t.my_nonce)]]

(* ------------------------------------------------------------------ *)
(* Helpers of the hooks                                                *)
(* ------------------------------------------------------------------ *)

\* send_use_ppk()
send_use_ppk(t, sa) ==
    IF t.initiator
    THEN sa.cfg.ppk_id
    ELSE "EXT_PPK" \in sa.ext /\ sa.cfg.ppk

\* send_supported_hash_algorithms(): a notify unless there is no algorithm
send_supported_hash_algorithms(sa, message) ==
    IF sa.cfg.hashes
    THEN add_notify(message, FALSE, SIGNATURE_HASH_ALGORITHMS, 0, <<>>)
    ELSE message

\* the notifies build_payloads() would add if it announced REDIRECT_SUPPORTED
\* from a redirected IKE_SA too
build_notifies_redirect_always(t, sa, message) ==
    LET m4 == IF /\ ~t.old_sa /\ sa.cfg.fragmentation
                 /\ (t.initiator \/ "EXT_IKE_FRAGMENTATION" \in sa.ext)
              THEN add_notify(message, FALSE, FRAGMENTATION_SUPPORTED, 0, <<>>)
              ELSE message
        m5 == IF /\ ~t.old_sa /\ t.signature_authentication
                 /\ (t.initiator \/ "EXT_SIGNATURE_AUTH" \in sa.ext)
              THEN send_supported_hash_algorithms(sa, m4)
              ELSE m4
        m6 == IF ~t.old_sa /\ t.initiator /\ t.follow_redirects
              THEN add_notify(m5, FALSE, REDIRECT_SUPPORTED, 0, <<>>)
              ELSE m5
        m7 == IF ~t.old_sa /\ send_use_ppk(t, sa)
              THEN add_notify(m6, FALSE, USE_PPK, 0, <<>>)
              ELSE m6
    IN  IF ~t.old_sa /\ ~t.initiator /\ sa.cfg.childless
        THEN add_notify(m7, FALSE, CHILDLESS_IKEV2_SUPPORTED, 0, <<>>)
        ELSE m7

\* the notifies build_payloads() adds behind the Nonce payload
build_notifies(t, sa, message) ==
    LET m4 == IF /\ ~t.old_sa /\ sa.cfg.fragmentation
                 /\ (t.initiator \/ "EXT_IKE_FRAGMENTATION" \in sa.ext)
              THEN add_notify(message, FALSE, FRAGMENTATION_SUPPORTED, 0, <<>>)
              ELSE message
        m5 == IF /\ ~t.old_sa /\ t.signature_authentication
                 /\ (t.initiator \/ "EXT_SIGNATURE_AUTH" \in sa.ext)
              THEN send_supported_hash_algorithms(sa, m4)
              ELSE m4
        m6 == IF ~t.old_sa /\ t.initiator /\ t.follow_redirects
              THEN IF sa.redirected_from
                   THEN add_notify(m5, FALSE, REDIRECTED_FROM, 0, <<>>)
                   ELSE add_notify(m5, FALSE, REDIRECT_SUPPORTED, 0, <<>>)
              ELSE m5
        m7 == IF ~t.old_sa /\ send_use_ppk(t, sa)
              THEN add_notify(m6, FALSE, USE_PPK, 0, <<>>)
              ELSE m6
    IN  IF ~t.old_sa /\ ~t.initiator /\ sa.cfg.childless
        THEN add_notify(m7, FALSE, CHILDLESS_IKEV2_SUPPORTED, 0, <<>>)
        ELSE m7

\* build_payloads(): [ok, w]; the SA payload is in the message when creating
\* the KE payload fails
build_payloads(w, env) ==
    LET t == w.this
        front == SelectSeq(CfgProposals, LAMBDA p : has_transform(p, t.ke_method))
        back == SelectSeq(CfgProposals, LAMBDA p : ~has_transform(p, t.ke_method))
        id == w.ike_sa.id
        offered == front \o back
        proposal == IF ~t.initiator /\ t.old_sa
                    THEN Ptr(set_spi(t.proposal[1], id.responder_spi))
                    ELSE t.proposal
        sa_payload == IF t.initiator
                      THEN SaPld([i \in 1 .. Len(offered) |->
                                     IF t.old_sa
                                     THEN set_spi(offered[i], id.initiator_spi)
                                     ELSE offered[i]])
                      ELSE SaPld(proposal)
        m1 == add_payload(w.message, sa_payload)
        m2 == add_payload(m1, KePld(t.ke[1].method))
        m3 == add_payload(m2, NoncePld(t.my_nonce))
    IN  IF ~env.ke_payload
        THEN [ok |-> FALSE, w |-> [w EXCEPT !.this.proposal = proposal,
                                            !.message = m1]]
        ELSE [ok |-> TRUE, w |-> [w EXCEPT !.this.proposal = proposal,
                                           !.message =
                                               build_notifies(t, w.ike_sa, m3)]]

\* process_sa_payload(): the proposal select_proposal() picks
process_sa_payload(t, sa) == [t EXCEPT !.proposal = sa]

AdditionalTypes ==
    [i \in 1 .. (ADDITIONAL_KEY_EXCHANGE_7 - ADDITIONAL_KEY_EXCHANGE_1 + 1) |->
        ADDITIONAL_KEY_EXCHANGE_1 + i - 1]

\* determine_key_exchanges(): slot 0 takes the key exchange method, the
\* following slots the additional key exchanges of the proposal, in order of
\* their transform type; the done flags are left as they are
determine_key_exchanges(t) ==
    LET p == t.proposal[1]
        adds == SelectSeq(AdditionalTypes, LAMBDA ty : p[ty] # KE_NONE)
    IN  [t EXCEPT !.key_exchanges =
            [i \in KexSlots |->
                IF i = 0
                THEN [t.key_exchanges[i] EXCEPT !.type = KEY_EXCHANGE_METHOD,
                                  !.method = p[KEY_EXCHANGE_METHOD]]
                ELSE IF i <= Len(adds)
                THEN [t.key_exchanges[i] EXCEPT !.type = adds[i], !.method = p[adds[i]]]
                ELSE t.key_exchanges[i]]]

\* additional_key_exchange_required() as it would be if its loop started
\* behind the current slot
additional_key_exchange_required_behind(t) ==
    \E i \in KexSlots :
        /\ i > t.ke_index
        /\ t.key_exchanges[i].type # 0
        /\ ~t.key_exchanges[i].done

additional_key_exchange_required(t) ==
    \E i \in KexSlots :
        /\ i >= t.ke_index
        /\ t.key_exchanges[i].type # 0
        /\ ~t.key_exchanges[i].done

clear_key_exchanges(t) ==
    [t EXCEPT !.key_exchanges = [i \in KexSlots |-> NoKex],
              !.ke_index = 0,
              !.kes = <<>>]

\* process_ke_payload(): ke is the received payload
process_ke_payload(t, ke, env) ==
    LET method == t.key_exchanges[t.ke_index].method
        received == ke.method
    IN  IF method # received
        THEN [t EXCEPT !.ke_failed = TRUE]
        ELSE
        LET t1 == IF ~t.initiator
                  THEN [t EXCEPT !.ke = create_ke(method, env)]
                  ELSE IF t.ke # NULL
                  THEN [t EXCEPT !.ke_failed = (t.ke[1].method # received)]
                  ELSE t
        IN  IF t1.ke # NULL /\ ~t1.ke_failed
            THEN IF ke.valid
                 THEN [t1 EXCEPT !.ke = Ptr([@[1] EXCEPT !.pub = TRUE])]
                 ELSE [t1 EXCEPT !.ke_failed = TRUE]
            ELSE t1

\* the same if an unparsable REDIRECTED_FROM notify counted too
RedirectionNotified_unparsed(notifies) ==
    \E i \in 1 .. Len(notifies) :
        \/ notifies[i].type = REDIRECT_SUPPORTED
        \/ notifies[i].type = REDIRECTED_FROM

\* whether the notifies of a message enable EXT_IKE_REDIRECTION
RedirectionNotified(notifies) ==
    \E i \in 1 .. Len(notifies) :
        \/ notifies[i].type = REDIRECT_SUPPORTED
        \/ notifies[i].type = REDIRECTED_FROM /\ notifies[i].gw

\* whether a message has a notify of the type
HasNotify(notifies, type) ==
    \E i \in 1 .. Len(notifies) : notifies[i].type = type

\* the extensions the notifies would enable if USE_PPK counted in a rekeying
NotifiedExtensions_ppk_in_rekey(t, notifies) ==
    (IF HasNotify(notifies, FRAGMENTATION_SUPPORTED)
     THEN {"EXT_IKE_FRAGMENTATION"} ELSE {})
    \cup (IF /\ t.signature_authentication
             /\ \E i \in 1 .. Len(notifies) :
                    /\ notifies[i].type = SIGNATURE_HASH_ALGORITHMS
                    /\ notifies[i].gw
          THEN {"EXT_SIGNATURE_AUTH"} ELSE {})
    \cup (IF HasNotify(notifies, USE_PPK)
          THEN {"EXT_PPK"} ELSE {})
    \cup (IF ~t.old_sa /\ RedirectionNotified(notifies)
          THEN {"EXT_IKE_REDIRECTION"} ELSE {})
    \cup (IF t.initiator /\ ~t.old_sa
             /\ HasNotify(notifies, CHILDLESS_IKEV2_SUPPORTED)
          THEN {"EXT_IKE_CHILDLESS"} ELSE {})

\* the extensions the notifies of a message enable in process_payloads()
NotifiedExtensions(t, notifies) ==
    (IF HasNotify(notifies, FRAGMENTATION_SUPPORTED)
     THEN {"EXT_IKE_FRAGMENTATION"} ELSE {})
    \cup (IF /\ t.signature_authentication
             /\ \E i \in 1 .. Len(notifies) :
                    /\ notifies[i].type = SIGNATURE_HASH_ALGORITHMS
                    /\ notifies[i].gw
          THEN {"EXT_SIGNATURE_AUTH"} ELSE {})
    \cup (IF ~t.old_sa /\ HasNotify(notifies, USE_PPK)
          THEN {"EXT_PPK"} ELSE {})
    \cup (IF ~t.old_sa /\ RedirectionNotified(notifies)
          THEN {"EXT_IKE_REDIRECTION"} ELSE {})
    \cup (IF t.initiator /\ ~t.old_sa
             /\ HasNotify(notifies, CHILDLESS_IKEV2_SUPPORTED)
          THEN {"EXT_IKE_CHILDLESS"} ELSE {})

\* process_payloads() as it would be if it wrote the SPI of the proposal over
\* the SPI of its own end
process_payloads_own_spi(w, m, env) ==
    LET t0 == w.this
        t1 == IF m.sa # NULL THEN process_sa_payload(t0, m.sa) ELSE t0
        t2 == IF m.ke # NULL THEN [t1 EXCEPT !.ke_method = m.ke[1].method] ELSE t1
        t3 == IF m.nonce # <<>> THEN [t2 EXCEPT !.other_nonce = m.nonce] ELSE t2
        sa1 == [w.ike_sa EXCEPT !.ext = @ \cup NotifiedExtensions(t0, m.notifies)]
    IN  IF t3.proposal = NULL
        THEN [w EXCEPT !.this = t3, !.ike_sa = sa1]
        ELSE
        LET t4 == determine_key_exchanges(t3)
            t5 == IF m.ke # NULL THEN process_ke_payload(t4, m.ke[1], env) ELSE t4
            spi == get_spi(t3.proposal[1])
            id == IF ~t0.old_sa THEN sa1.id
                  ELSE IF t0.initiator
                  THEN [sa1.id EXCEPT !.initiator_spi = spi]
                  ELSE [sa1.id EXCEPT !.responder_spi = spi]
        IN  [w EXCEPT !.this = t5,
                      !.ike_sa = [sa1 EXCEPT !.proposal = t3.proposal,
                                             !.id = id]]

\* process_payloads()
process_payloads(w, m, env) ==
    LET t0 == w.this
        t1 == IF m.sa # NULL THEN process_sa_payload(t0, m.sa) ELSE t0
        t2 == IF m.ke # NULL THEN [t1 EXCEPT !.ke_method = m.ke[1].method] ELSE t1
        t3 == IF m.nonce # <<>> THEN [t2 EXCEPT !.other_nonce = m.nonce] ELSE t2
        sa1 == [w.ike_sa EXCEPT !.ext = @ \cup NotifiedExtensions(t0, m.notifies)]
    IN  IF t3.proposal = NULL
        THEN [w EXCEPT !.this = t3, !.ike_sa = sa1]
        ELSE
        LET t4 == determine_key_exchanges(t3)
            t5 == IF m.ke # NULL THEN process_ke_payload(t4, m.ke[1], env) ELSE t4
            spi == get_spi(t3.proposal[1])
            id == IF ~t0.old_sa THEN sa1.id
                  ELSE IF t0.initiator
                  THEN [sa1.id EXCEPT !.responder_spi = spi]
                  ELSE [sa1.id EXCEPT !.initiator_spi = spi]
        IN  [w EXCEPT !.this = t5,
                      !.ike_sa = [sa1 EXCEPT !.proposal = t3.proposal,
                                             !.id = id]]

\* build_payloads_multi_ke(): [ok, w]
build_payloads_multi_ke(w, env) ==
    IF ~env.ke_payload
    THEN [ok |-> FALSE, w |-> w]
    ELSE [ok |-> TRUE,
          w |-> [w EXCEPT !.message = add_payload(@, KePld(w.this.ke[1].method))]]

\* process_payloads_multi_ke()
process_payloads_multi_ke(t, m, env) ==
    IF m.ke # NULL THEN process_ke_payload(t, m.ke[1], env) ELSE t

(* ------------------------------------------------------------------ *)
(* Key derivation                                                      *)
(* ------------------------------------------------------------------ *)

\* one call of keymat->derive_ike_keys(): the key exchanges and nonces
\* passed, the SA whose SK_d and PRF are passed ("NONE", "OWN" for the
\* task's IKE_SA, "OLD" for old_sa), and whether it succeeded, which is
\* when the ike_keys event is published
Derivation(kes, nonce_i, nonce_r, skd, ok) ==
    [kes |-> kes, nonce_i |-> nonce_i, nonce_r |-> nonce_r, skd |-> skd, ok |-> ok]

\* derive_keys(): old_sa is "NONE", "OWN" or "OLD"; a NULL proposal is
\* dereferenced by derive_ike_keys() unless it fails before
derive_keys(w, old_sa, nonce_i, nonce_r, env) ==
    LET t == w.this
        kes == IF t.kes = <<>> THEN t.ke ELSE t.kes
        success == env.derive = "ok" /\ t.proposal # NULL
    IN  IF t.proposal = NULL /\ env.derive # "fail"
        THEN Ret(w, CRASHED)
        ELSE Ret([w EXCEPT !.derived =
                     Append(@, Derivation(kes, nonce_i, nonce_r, old_sa, success))],
                 IF success THEN SUCCESS ELSE FAILED)

\* key_exchange_done() as it would be if a rekeying stored the key exchange
\* object in kes and kept it in ke as well
key_exchange_done_shares_ke(w, nonce_i, nonce_r, env) ==
    LET t == w.this
        t1 == [t EXCEPT !.key_exchanges[t.ke_index].done = TRUE,
                        !.ke_index = @ + 1]
        additional_ke == additional_key_exchange_required(t1)
        t2 == IF t.old_sa
              THEN [t1 EXCEPT !.kes = @ \o t1.ke]
              ELSE t1
        old_sa == IF t.old_sa
                  THEN IF ~additional_ke THEN "OLD" ELSE "NONE"
                  ELSE "OWN"
        w2 == [w EXCEPT !.this = t2]
        d == derive_keys(w2, old_sa, nonce_i, nonce_r, env)
    IN  IF old_sa # "NONE" /\ d.st # SUCCESS
        THEN d
        ELSE Ret(IF old_sa # "NONE" THEN d.w ELSE w2,
                 IF additional_ke THEN NEED_MORE ELSE SUCCESS)

\* key_exchange_done() as it would be if a fresh IKE_SA derived its keys
\* only after the last key exchange, as a rekeying does
key_exchange_done_deferred(w, nonce_i, nonce_r, env) ==
    LET t == w.this
        t1 == [t EXCEPT !.key_exchanges[t.ke_index].done = TRUE,
                        !.ke_index = @ + 1]
        additional_ke == additional_key_exchange_required(t1)
        t2 == IF t.old_sa
              THEN [t1 EXCEPT !.kes = @ \o t1.ke, !.ke = NULL]
              ELSE t1
        old_sa == IF ~additional_ke
                  THEN IF t.old_sa THEN "OLD" ELSE "OWN"
                  ELSE "NONE"
        w2 == [w EXCEPT !.this = t2]
        d == derive_keys(w2, old_sa, nonce_i, nonce_r, env)
    IN  IF old_sa # "NONE" /\ d.st # SUCCESS
        THEN d
        ELSE Ret(IF old_sa # "NONE" THEN d.w ELSE w2,
                 IF additional_ke THEN NEED_MORE ELSE SUCCESS)

\* key_exchange_done() as it would be if a rekeying derived keys after every
\* key exchange, as a fresh IKE_SA does
key_exchange_done_eager(w, nonce_i, nonce_r, env) ==
    LET t == w.this
        t1 == [t EXCEPT !.key_exchanges[t.ke_index].done = TRUE,
                        !.ke_index = @ + 1]
        additional_ke == additional_key_exchange_required(t1)
        t2 == IF t.old_sa
              THEN [t1 EXCEPT !.kes = @ \o t1.ke, !.ke = NULL]
              ELSE t1
        d == derive_keys([w EXCEPT !.this = t2],
                         IF t.old_sa THEN "OLD" ELSE "OWN", nonce_i, nonce_r, env)
    IN  IF d.st # SUCCESS
        THEN d
        ELSE Ret(d.w, IF additional_ke THEN NEED_MORE ELSE SUCCESS)

\* key_exchange_done()
key_exchange_done(w, nonce_i, nonce_r, env) ==
    LET t == w.this
        t1 == [t EXCEPT !.key_exchanges[t.ke_index].done = TRUE,
                        !.ke_index = @ + 1]
        additional_ke == additional_key_exchange_required(t1)
        t2 == IF t.old_sa
              THEN [t1 EXCEPT !.kes = @ \o t1.ke, !.ke = NULL]
              ELSE t1
        old_sa == IF t.old_sa
                  THEN IF ~additional_ke THEN "OLD" ELSE "NONE"
                  ELSE "OWN"
        w2 == [w EXCEPT !.this = t2]
        d == derive_keys(w2, old_sa, nonce_i, nonce_r, env)
    IN  IF old_sa # "NONE" /\ d.st # SUCCESS
        THEN d
        ELSE Ret(IF old_sa # "NONE" THEN d.w ELSE w2,
                 IF additional_ke THEN NEED_MORE ELSE SUCCESS)

(* ------------------------------------------------------------------ *)
(* Initiator hooks                                                     *)
(* ------------------------------------------------------------------ *)

\* ike_sa->reset()
ike_sa_reset(sa) == [sa EXCEPT !.state = "IKE_CREATED"]

build_i_multi_ke(w, env) ==
    LET t == w.this
        m0 == [w.message EXCEPT !.xchg = exchange_type_multi_ke(t)]
        method == t.key_exchanges[t.ke_index].method
        t1 == [t EXCEPT !.ke = create_ke(method, env)]
        w1 == [w EXCEPT !.this = t1, !.message = m0]
    IN  IF t1.ke = NULL
        THEN Ret(w1, FAILED)
        ELSE LET b == build_payloads_multi_ke(w1, env)
             IN  Ret(b.w, IF b.ok THEN NEED_MORE ELSE FAILED)

\* build_i() as it would be if it generated a nonce for every request
build_i_new_nonce(w, env) ==
    LET t == w.this
        w0 == [w EXCEPT !.ike_sa.state = "IKE_CONNECTING"]
    IN  IF t.retry >= MAX_RETRIES
        THEN Ret(w0, FAILED)
        ELSE
        LET t1 == IF t.ke = NULL
                  THEN [t EXCEPT !.ke_method = env.method,
                                 !.ke = create_ke(env.method, env)]
                  ELSE IF t.ke[1].method # t.ke_method
                  THEN [t EXCEPT !.ke = create_ke(t.ke_method, env)]
                  ELSE t
        IN  IF t1.ke = NULL
            THEN Ret([w0 EXCEPT !.this = t1], FAILED)
            ELSE
            LET g == generate_nonce(t1, env)
                m1 == IF g.this.cookie # <<>>
                      THEN add_notify(w0.message, FALSE, COOKIE, 0, g.this.cookie)
                      ELSE w0.message
                b == build_payloads([w0 EXCEPT !.this = g.this, !.message = m1], env)
            IN  IF ~g.ok
                THEN Ret([w0 EXCEPT !.this = g.this], FAILED)
                ELSE Ret(b.w, IF b.ok THEN NEED_MORE ELSE FAILED)

\* build_i() as it would be if it kept the KE object of the previous attempt
\* although the peer asked for another group
build_i_keeps_ke(w, env) ==
    LET t == w.this
        w0 == [w EXCEPT !.ike_sa.state = "IKE_CONNECTING"]
    IN  IF t.retry >= MAX_RETRIES
        THEN Ret(w0, FAILED)
        ELSE
        LET t1 == IF t.ke = NULL
                  THEN [t EXCEPT !.ke_method = env.method,
                                 !.ke = create_ke(env.method, env)]
                  ELSE t
        IN  IF t1.ke = NULL
            THEN Ret([w0 EXCEPT !.this = t1], FAILED)
            ELSE
            LET g == IF t1.my_nonce = <<>>
                     THEN generate_nonce(t1, env)
                     ELSE [ok |-> TRUE, this |-> t1]
                m1 == IF g.this.cookie # <<>>
                      THEN add_notify(w0.message, FALSE, COOKIE, 0, g.this.cookie)
                      ELSE w0.message
                b == build_payloads([w0 EXCEPT !.this = g.this, !.message = m1], env)
            IN  IF ~g.ok
                THEN Ret([w0 EXCEPT !.this = g.this], FAILED)
                ELSE Ret(b.w, IF b.ok THEN NEED_MORE ELSE FAILED)

build_i(w, env) ==
    LET t == w.this
        w0 == [w EXCEPT !.ike_sa.state = "IKE_CONNECTING"]
    IN  IF t.retry >= MAX_RETRIES
        THEN Ret(w0, FAILED)
        ELSE
        LET t1 == IF t.ke = NULL
                  THEN [t EXCEPT !.ke_method = env.method,
                                 !.ke = create_ke(env.method, env)]
                  ELSE IF t.ke[1].method # t.ke_method
                  THEN [t EXCEPT !.ke = create_ke(t.ke_method, env)]
                  ELSE t
        IN  IF t1.ke = NULL
            THEN Ret([w0 EXCEPT !.this = t1], FAILED)
            ELSE
            LET g == IF t1.my_nonce = <<>>
                     THEN generate_nonce(t1, env)
                     ELSE [ok |-> TRUE, this |-> t1]
                m1 == IF g.this.cookie # <<>>
                      THEN add_notify(w0.message, FALSE, COOKIE, 0, g.this.cookie)
                      ELSE w0.message
                b == build_payloads([w0 EXCEPT !.this = g.this, !.message = m1], env)
            IN  IF ~g.ok
                THEN Ret([w0 EXCEPT !.this = g.this], FAILED)
                ELSE Ret(b.w, IF b.ok THEN NEED_MORE ELSE FAILED)

\* the notifies pre_process_i() returns on: a COOKIE equal to the stored one,
\* and, unless rekeying, a REDIRECT
PreDecisive(t, n) ==
    \/ n.type = COOKIE /\ chunk_equals(n.chunk, t.cookie)
    \/ n.type = REDIRECT /\ ~t.old_sa

\* the position of the first notify, in message order, that the loop of a
\* hook returns on, 0 if there is none; hits tells for each notify whether
\* the loop returns on it
FirstNotify(hits) ==
    IF \E i \in 1 .. Len(hits) : hits[i]
    THEN CHOOSE i \in 1 .. Len(hits) :
            /\ hits[i]
            /\ \A j \in 1 .. (i - 1) : ~hits[j]
    ELSE 0

PreDecisives(t, notifies) ==
    [i \in 1 .. Len(notifies) |-> PreDecisive(t, notifies[i])]

\* pre_process_i() as it would be if it accepted a REDIRECT notify with any
\* nonce
pre_process_i_any_nonce(w, m) ==
    LET t == w.this
        i == FirstNotify(PreDecisives(t, m.notifies))
    IN  IF i = 0
        THEN Ret(w, SUCCESS)
        ELSE LET n == m.notifies[i]
             IN  IF n.type = COOKIE
                 THEN Ret(w, FAILED)
                 ELSE IF ~n.gw
                 THEN Ret(w, FAILED)
                 ELSE Ret(w, SUCCESS)

\* pre_process_i() as it would be without the comparison of a COOKIE notify
\* with the stored cookie
pre_process_i_any_cookie(w, m) ==
    LET t == w.this
        i == FirstNotify([k \in 1 .. Len(m.notifies) |->
                             m.notifies[k].type = REDIRECT /\ ~t.old_sa])
    IN  IF i = 0
        THEN Ret(w, SUCCESS)
        ELSE IF ~m.notifies[i].gw \/ ~chunk_equals(m.notifies[i].chunk, t.my_nonce)
        THEN Ret(w, FAILED)
        ELSE Ret(w, SUCCESS)

pre_process_i(w, m) ==
    LET t == w.this
        i == FirstNotify(PreDecisives(t, m.notifies))
    IN  IF i = 0
        THEN Ret(w, SUCCESS)
        ELSE LET n == m.notifies[i]
             IN  IF n.type = COOKIE
                 THEN Ret(w, FAILED)
                 ELSE IF ~n.gw \/ ~chunk_equals(n.chunk, t.my_nonce)
                 THEN Ret(w, FAILED)
                 ELSE Ret(w, SUCCESS)

post_process_i_intermediate(w, env) ==
    key_exchange_done(w, w.this.my_nonce, w.this.other_nonce, env)

\* process_i_multi_ke() as it would be if it completed the key exchange
\* itself for a fresh IKE_SA too
process_i_multi_ke_derives(w, m, env) ==
    LET t1 == process_payloads_multi_ke(w.this, m, env)
        w1 == [w EXCEPT !.this = t1]
    IN  IF t1.ke_failed
        THEN Ret(w1, FAILED)
        ELSE key_exchange_done(w1, t1.my_nonce, t1.other_nonce, env)

process_i_multi_ke(w, m, env) ==
    LET t1 == process_payloads_multi_ke(w.this, m, env)
        w1 == [w EXCEPT !.this = t1]
    IN  IF t1.ke_failed
        THEN Ret(w1, FAILED)
        ELSE IF t1.old_sa
        THEN key_exchange_done(w1, t1.my_nonce, t1.other_nonce, env)
        ELSE Ret([w1 EXCEPT !.this.post_process = "post_process_i_intermediate"],
                 NEED_MORE)

\* the notifies process_i() returns on
\* the notifies process_i() would return on if its default case took the last
\* error type for a status type
Decisive_below_last_error(t, n) ==
    \/ n.type = INVALID_KE_PAYLOAD
    \/ n.type = COOKIE
    \/ n.type = REDIRECT /\ ~t.old_sa
    \/ /\ n.type \notin {INVALID_KE_PAYLOAD, NAT_DETECTION_SOURCE_IP, COOKIE, REDIRECT}
       /\ n.type < MAX_ERROR_NOTIFY

\* the notifies process_i() would return on if it did not skip a REDIRECT when
\* rekeying
Decisive_redirect_in_rekey(t, n) ==
    \/ n.type = INVALID_KE_PAYLOAD
    \/ n.type = COOKIE
    \/ n.type = REDIRECT
    \/ /\ n.type \notin {INVALID_KE_PAYLOAD, NAT_DETECTION_SOURCE_IP, COOKIE, REDIRECT}
       /\ n.type <= MAX_ERROR_NOTIFY

Decisive(t, n) ==
    \/ n.type = INVALID_KE_PAYLOAD
    \/ n.type = COOKIE
    \/ n.type = REDIRECT /\ ~t.old_sa
    \/ /\ n.type \notin {INVALID_KE_PAYLOAD, NAT_DETECTION_SOURCE_IP, COOKIE, REDIRECT}
       /\ n.type <= MAX_ERROR_NOTIFY

Decisives(t, notifies) ==
    [i \in 1 .. Len(notifies) |-> Decisive(t, notifies[i])]

process_i(w, m, env) ==
    LET t == w.this
        i == FirstNotify(Decisives(t, m.notifies))
    IN  IF i # 0
        THEN
        LET n == m.notifies[i]
        IN  CASE n.type = INVALID_KE_PAYLOAD ->
                   Ret([w EXCEPT !.this.ke_method = n.group,
                                 !.this.retry = @ + 1,
                                 !.ike_sa = IF t.old_sa THEN @ ELSE ike_sa_reset(@)],
                       NEED_MORE)
              [] n.type = COOKIE ->
                   Ret([w EXCEPT !.this.cookie = n.chunk,
                                 !.this.retry = @ + 1,
                                 !.ike_sa = ike_sa_reset(@)],
                       NEED_MORE)
              [] n.type = REDIRECT ->
                   Ret(w, IF n.gw /\ env.redirect THEN NEED_MORE ELSE FAILED)
              [] OTHER -> Ret(w, FAILED)
        ELSE
        LET w1 == process_payloads(w, m, env)
            t1 == w1.this
        IN  IF t1.proposal = NULL \/ t1.other_nonce = <<>> \/ t1.my_nonce = <<>>
            THEN Ret(w1, FAILED)
            ELSE IF ~has_transform(t1.proposal[1], t1.ke_method)
            THEN Ret(w1, FAILED)
            ELSE IF t1.ke_failed
            THEN Ret(w1, FAILED)
            ELSE
            LET d == key_exchange_done(w1, t1.my_nonce, t1.other_nonce, env)
            IN  IF d.st = NEED_MORE
                THEN Ret([d.w EXCEPT !.this.build = "build_i_multi_ke",
                                     !.this.process = "process_i_multi_ke"],
                         NEED_MORE)
                ELSE d

(* ------------------------------------------------------------------ *)
(* Responder hooks                                                     *)
(* ------------------------------------------------------------------ *)

process_r_multi_ke(w, m, env) ==
    IF m.xchg = exchange_type_multi_ke(w.this)
    THEN Ret([w EXCEPT !.this = process_payloads_multi_ke(@, m, env)], NEED_MORE)
    ELSE Ret(w, NEED_MORE)

process_r(w, m, env) ==
    LET w0 == [w EXCEPT !.ike_sa.state = "IKE_CONNECTING"]
        g == generate_nonce(w.this, env)
    IN  IF ~g.ok
        THEN Ret(w0, FAILED)
        ELSE Ret(process_payloads([w0 EXCEPT !.this = g.this], m, env), NEED_MORE)

\* post_build_r_intermediate() as it would be if it passed the nonces in the
\* order of the initiator
post_build_r_intermediate_own_first(w, env) ==
    key_exchange_done(w, w.this.my_nonce, w.this.other_nonce, env)

post_build_r_intermediate(w, env) ==
    key_exchange_done(w, w.this.other_nonce, w.this.my_nonce, env)

build_r_multi_ke(w, env) ==
    LET t == w.this
    IN  IF t.ke = NULL
        THEN Ret([w EXCEPT !.message =
                     add_notify(@, FALSE, INVALID_SYNTAX, 0, <<>>)], FAILED)
        ELSE IF t.ke_failed
        THEN Ret([w EXCEPT !.message =
                     add_notify(@, FALSE, NO_PROPOSAL_CHOSEN, 0, <<>>)], FAILED)
        ELSE
        LET b == build_payloads_multi_ke(w, env)
        IN  IF ~b.ok
            THEN Ret(b.w, FAILED)
            ELSE IF t.old_sa
            THEN LET d == key_exchange_done(b.w, t.other_nonce, t.my_nonce, env)
                 IN  IF d.st = FAILED
                     THEN Ret([d.w EXCEPT !.message =
                                  add_notify(@, FALSE, NO_PROPOSAL_CHOSEN, 0, <<>>)],
                              FAILED)
                     ELSE d
            ELSE Ret([b.w EXCEPT !.this.post_build = "post_build_r_intermediate"],
                     NEED_MORE)

\* htons(): a 16 bit value as its two bytes in network order
htons(x) == <<(x \div 256) % 256, x % 256>>

\* build_r() as it would be if it asked for the group of the proposal whenever
\* the KE object is missing, the requested method being the right one or not
build_r_always_invalid_ke(w, env) ==
    LET t == w.this
    IN  IF t.proposal = NULL \/ t.other_nonce = <<>> \/ t.my_nonce = <<>>
        THEN Ret([w EXCEPT !.message =
                     add_notify(@, TRUE, NO_PROPOSAL_CHOSEN, 0, <<>>)], FAILED)
        ELSE IF /\ ~t.old_sa
                /\ "EXT_IKE_REDIRECTION" \in w.ike_sa.ext
                /\ env.redirect
        THEN Ret([w EXCEPT !.message =
                     add_notify(@, TRUE, REDIRECT, 0, t.other_nonce)], FAILED)
        ELSE IF t.ke = NULL \/ ~has_transform(t.proposal[1], t.ke_method)
        THEN
        LET group == t.proposal[1][KEY_EXCHANGE_METHOD]
        IN  IF group # KE_NONE
            THEN Ret([w EXCEPT !.this.ke_method = group,
                               !.message =
                                   add_notify(@, FALSE, INVALID_KE_PAYLOAD, 0, htons(group))],
                     FAILED)
            ELSE Ret([w EXCEPT !.message =
                         add_notify(@, TRUE, NO_PROPOSAL_CHOSEN, 0, <<>>)], FAILED)
        ELSE IF t.ke_failed
        THEN Ret([w EXCEPT !.message =
                     add_notify(@, TRUE, NO_PROPOSAL_CHOSEN, 0, <<>>)], FAILED)
        ELSE
        LET b == build_payloads(w, env)
        IN  IF ~b.ok
            THEN Ret([b.w EXCEPT !.message =
                         add_notify(@, TRUE, NO_PROPOSAL_CHOSEN, 0, <<>>)], FAILED)
            ELSE
            LET d == key_exchange_done(b.w, t.other_nonce, t.my_nonce, env)
            IN  CASE d.st = FAILED ->
                       Ret([d.w EXCEPT !.message =
                               add_notify(@, TRUE, NO_PROPOSAL_CHOSEN, 0, <<>>)],
                           FAILED)
                  [] d.st = NEED_MORE ->
                       Ret([d.w EXCEPT !.this.build = "build_r_multi_ke",
                                       !.this.process = "process_r_multi_ke"],
                           NEED_MORE)
                  [] OTHER -> d

\* build_r() as it would be if asking for another group already switched the
\* task to the hooks of the additional key exchanges
build_r_invalid_ke_advances(w, env) ==
    LET t == w.this
    IN  IF t.proposal = NULL \/ t.other_nonce = <<>> \/ t.my_nonce = <<>>
        THEN Ret([w EXCEPT !.message =
                     add_notify(@, TRUE, NO_PROPOSAL_CHOSEN, 0, <<>>)], FAILED)
        ELSE IF /\ ~t.old_sa
                /\ "EXT_IKE_REDIRECTION" \in w.ike_sa.ext
                /\ env.redirect
        THEN Ret([w EXCEPT !.message =
                     add_notify(@, TRUE, REDIRECT, 0, t.other_nonce)], FAILED)
        ELSE IF t.ke = NULL \/ ~has_transform(t.proposal[1], t.ke_method)
        THEN
        LET group == t.proposal[1][KEY_EXCHANGE_METHOD]
        IN  IF group # KE_NONE /\ t.ke_method # group
            THEN Ret([w EXCEPT !.this.ke_method = group,
                               !.this.build = "build_r_multi_ke",
                               !.this.process = "process_r_multi_ke",
                               !.message =
                                   add_notify(@, FALSE, INVALID_KE_PAYLOAD, 0, htons(group))],
                     FAILED)
            ELSE Ret([w EXCEPT !.message =
                         add_notify(@, TRUE, NO_PROPOSAL_CHOSEN, 0, <<>>)], FAILED)
        ELSE IF t.ke_failed
        THEN Ret([w EXCEPT !.message =
                     add_notify(@, TRUE, NO_PROPOSAL_CHOSEN, 0, <<>>)], FAILED)
        ELSE
        LET b == build_payloads(w, env)
        IN  IF ~b.ok
            THEN Ret([b.w EXCEPT !.message =
                         add_notify(@, TRUE, NO_PROPOSAL_CHOSEN, 0, <<>>)], FAILED)
            ELSE
            LET d == key_exchange_done(b.w, t.other_nonce, t.my_nonce, env)
            IN  CASE d.st = FAILED ->
                       Ret([d.w EXCEPT !.message =
                               add_notify(@, TRUE, NO_PROPOSAL_CHOSEN, 0, <<>>)],
                           FAILED)
                  [] d.st = NEED_MORE ->
                       Ret([d.w EXCEPT !.this.build = "build_r_multi_ke",
                                       !.this.process = "process_r_multi_ke"],
                           NEED_MORE)
                  [] OTHER -> d

build_r(w, env) ==
    LET t == w.this
    IN  IF t.proposal = NULL \/ t.other_nonce = <<>> \/ t.my_nonce = <<>>
        THEN Ret([w EXCEPT !.message =
                     add_notify(@, TRUE, NO_PROPOSAL_CHOSEN, 0, <<>>)], FAILED)
        ELSE IF /\ ~t.old_sa
                /\ "EXT_IKE_REDIRECTION" \in w.ike_sa.ext
                /\ env.redirect
        THEN Ret([w EXCEPT !.message =
                     add_notify(@, TRUE, REDIRECT, 0, t.other_nonce)], FAILED)
        ELSE IF t.ke = NULL \/ ~has_transform(t.proposal[1], t.ke_method)
        THEN
        LET group == t.proposal[1][KEY_EXCHANGE_METHOD]
        IN  IF group # KE_NONE /\ t.ke_method # group
            THEN Ret([w EXCEPT !.this.ke_method = group,
                               !.message =
                                   add_notify(@, FALSE, INVALID_KE_PAYLOAD, 0, htons(group))],
                     FAILED)
            ELSE Ret([w EXCEPT !.message =
                         add_notify(@, TRUE, NO_PROPOSAL_CHOSEN, 0, <<>>)], FAILED)
        ELSE IF t.ke_failed
        THEN Ret([w EXCEPT !.message =
                     add_notify(@, TRUE, NO_PROPOSAL_CHOSEN, 0, <<>>)], FAILED)
        ELSE
        LET b == build_payloads(w, env)
        IN  IF ~b.ok
            THEN Ret([b.w EXCEPT !.message =
                         add_notify(@, TRUE, NO_PROPOSAL_CHOSEN, 0, <<>>)], FAILED)
            ELSE
            LET d == key_exchange_done(b.w, t.other_nonce, t.my_nonce, env)
            IN  CASE d.st = FAILED ->
                       Ret([d.w EXCEPT !.message =
                               add_notify(@, TRUE, NO_PROPOSAL_CHOSEN, 0, <<>>)],
                           FAILED)
                  [] d.st = NEED_MORE ->
                       Ret([d.w EXCEPT !.this.build = "build_r_multi_ke",
                                       !.this.process = "process_r_multi_ke"],
                           NEED_MORE)
                  [] OTHER -> d

(* ------------------------------------------------------------------ *)
(* migrate, get_lower_nonce                                            *)
(* ------------------------------------------------------------------ *)

\* migrate() as it would be without the call of clear_key_exchanges()
migrate_keeps_plan(t) ==
    [t EXCEPT !.other_nonce = <<>>,
              !.proposal = NULL,
              !.ke_failed = FALSE]

\* migrate() as it would be if it forgot the cookie of the peer
migrate_clears_cookie(t) ==
    clear_key_exchanges([t EXCEPT !.other_nonce = <<>>,
                                  !.proposal = NULL,
                                  !.ke_failed = FALSE,
                                  !.cookie = <<>>])

\* migrate() as it would be if it also reset the retry counter
migrate_resets_retry(t) ==
    clear_key_exchanges([t EXCEPT !.other_nonce = <<>>,
                                  !.proposal = NULL,
                                  !.ke_failed = FALSE,
                                  !.retry = 0])

migrate(t) ==
    clear_key_exchanges([t EXCEPT !.other_nonce = <<>>,
                                  !.proposal = NULL,
                                  !.ke_failed = FALSE])

\* memcmp() of the first n bytes: negative, zero or positive
RECURSIVE memcmp(_, _, _)
memcmp(a, b, n) ==
    IF n = 0 THEN 0
    ELSE IF a[1] # b[1] THEN a[1] - b[1]
    ELSE memcmp(Tail(a), Tail(b), n - 1)

min(x, y) == IF x < y THEN x ELSE y

get_lower_nonce(t) ==
    IF memcmp(t.my_nonce, t.other_nonce, min(Len(t.my_nonce), Len(t.other_nonce))) < 0
    THEN t.my_nonce
    ELSE t.other_nonce

(* ------------------------------------------------------------------ *)
(* State                                                               *)
(* ------------------------------------------------------------------ *)

VARIABLES
    this,       \* the task
    ike_sa,     \* the IKE_SA the task is bound to
    message,    \* the message the last build hook worked on
    derived,    \* the calls of derive_ike_keys(), in order
    rx,         \* the message the last pre_process/process hook worked on
    pc,         \* what the task manager does next with the task
    hook,       \* the hook or method that ran last
    status,     \* what it returned
    nonces,     \* get_lower_nonce: the nonces N_i, N_r of two peers
    lower       \* get_lower_nonce: what each peer's task returned

vars == << this, ike_sa, message, derived, rx, pc, hook, status, nonces, lower >>

taskVars == << this, ike_sa, message, derived, rx, pc, hook, status >>
nonceVars == << nonces, lower >>

NoNonces == [n_i |-> <<>>, n_r |-> <<>>]
NoLower == [set |-> FALSE, i |-> <<>>, r |-> <<>>]

(* ------------------------------------------------------------------ *)
(* The task manager: which hook runs next                               *)
(* ------------------------------------------------------------------ *)

\* the exchange the task was created for
InitExchange(t) == IF t.old_sa THEN CREATE_CHILD_SA ELSE IKE_SA_INIT

InMultiKe(t) == t.process \in {"process_i_multi_ke", "process_r_multi_ke"}

\* the messages that may arrive for the task
\* a proposal of an IKE_SA_INIT message has no SPI, one for the rekeying of
\* an IKE_SA has the SPI the peer allocated for the new IKE_SA
WithSpi(m, spi) ==
    [m EXCEPT !.sa = IF @ = NULL THEN @ ELSE Ptr(set_spi(@[1], spi))]

Inbound(t) ==
    LET spi == IF t.old_sa THEN PeerSpi ELSE 0
    IN  IF t.initiator
        THEN IF InMultiKe(t)
             THEN MultiKeResponses(exchange_type_multi_ke(t))
             ELSE { WithSpi(m, spi) : m \in InitResponses(InitExchange(t)) }
        ELSE IF InMultiKe(t)
             THEN MultiKeRequests
             ELSE { WithSpi(m, spi) : m \in InitRequests(InitExchange(t)) }

\* a task that returns SUCCESS or FAILED is removed; after NEED_MORE the
\* post hook of the same message runs if the task has one, then the
\* initiator builds the next request and the responder waits for one
AfterBuild(t, st) ==
    IF st # NEED_MORE THEN "done"
    ELSE IF t.post_build # "NULL" THEN "post_build"
    ELSE "await"

AfterPostBuild(t, st) == IF st # NEED_MORE THEN "done" ELSE "await"

\* a message whose pre-processing fails is ignored
AfterPreProcess(t, st) == IF st = SUCCESS THEN "process" ELSE "await"

AfterProcess(t, st) ==
    IF st # NEED_MORE THEN "done"
    ELSE IF t.post_process # "NULL" THEN "post_process"
    ELSE "build"

AfterPostProcess(t, st) == IF st # NEED_MORE THEN "done" ELSE "build"

Here == World(this, ike_sa, message, derived)

\* the hook named h returned r
Returned(h, r, next) ==
    /\ this' = r.w.this
    /\ ike_sa' = r.w.ike_sa
    /\ message' = r.w.message
    /\ derived' = r.w.derived
    /\ hook' = h
    /\ status' = r.st
    /\ pc' = next

DeriveAnswers == {"ok", "fail"}

Init ==
    /\ this \in { ike_init_create(i, o, DefaultSettings) :
                      i \in BOOLEAN, o \in BOOLEAN }
    /\ ike_sa = NewIkeSa(this.initiator, this.old_sa)
    /\ message = NewMessage("NONE")
    /\ derived = <<>>
    /\ rx = NoMsg
    /\ pc = IF this.initiator THEN "build" ELSE "await"
    /\ hook = "NONE"
    /\ status = "NONE"
    /\ nonces = NoNonces
    /\ lower = NoLower

(* ------------------------------------------------------------------ *)
(* Actions: one per hook                                               *)
(* ------------------------------------------------------------------ *)

BuildI ==
    /\ pc = "build" /\ this.build = "build_i"
    /\ \E c \in BOOLEAN, g \in Methods, n \in BOOLEAN, k \in BOOLEAN :
          LET r == build_i([Here EXCEPT !.message = NewMessage(InitExchange(this))],
                           Env(c, g, n, k, "ok", FALSE))
          IN  Returned("build_i", r, AfterBuild(r.w.this, r.st))
    /\ rx' = NoMsg
    /\ UNCHANGED nonceVars

BuildIMultiKe ==
    /\ pc = "build" /\ this.build = "build_i_multi_ke"
    /\ \E c \in BOOLEAN, k \in BOOLEAN :
          LET r == build_i_multi_ke([Here EXCEPT !.message = NewMessage("NONE")],
                                    Env(c, KE_NONE, FALSE, k, "ok", FALSE))
          IN  Returned("build_i_multi_ke", r, AfterBuild(r.w.this, r.st))
    /\ rx' = NoMsg
    /\ UNCHANGED nonceVars

PreProcessI ==
    /\ pc = "await" /\ this.pre_process = "pre_process_i"
    /\ \E m \in Inbound(this) :
          /\ rx' = m
          /\ LET r == pre_process_i(Here, m)
             IN  Returned("pre_process_i", r, AfterPreProcess(r.w.this, r.st))
    /\ UNCHANGED nonceVars

ProcessI ==
    /\ pc = "process" /\ this.process = "process_i"
    /\ \E d \in DeriveAnswers, h \in BOOLEAN :
          LET r == process_i(Here, rx, Env(FALSE, KE_NONE, FALSE, FALSE, d, h))
          IN  Returned("process_i", r, AfterProcess(r.w.this, r.st))
    /\ UNCHANGED << rx, nonceVars >>

ProcessIMultiKe ==
    /\ pc = "process" /\ this.process = "process_i_multi_ke"
    /\ \E d \in DeriveAnswers :
          LET r == process_i_multi_ke(Here, rx, Env(FALSE, KE_NONE, FALSE, FALSE, d, FALSE))
          IN  Returned("process_i_multi_ke", r, AfterProcess(r.w.this, r.st))
    /\ UNCHANGED << rx, nonceVars >>

PostProcessIIntermediate ==
    /\ pc = "post_process" /\ this.post_process = "post_process_i_intermediate"
    /\ \E d \in DeriveAnswers :
          LET r == post_process_i_intermediate(
                       Here, Env(FALSE, KE_NONE, FALSE, FALSE, d, FALSE))
          IN  Returned("post_process_i_intermediate", r,
                       AfterPostProcess(r.w.this, r.st))
    /\ UNCHANGED << rx, nonceVars >>

ProcessR ==
    /\ pc = "await" /\ this.process = "process_r"
    /\ \E m \in Inbound(this), c \in BOOLEAN, n \in BOOLEAN :
          /\ rx' = m
          /\ LET r == process_r(Here, m, Env(c, KE_NONE, n, FALSE, "ok", FALSE))
             IN  Returned("process_r", r, AfterProcess(r.w.this, r.st))
    /\ UNCHANGED nonceVars

ProcessRMultiKe ==
    /\ pc = "await" /\ this.process = "process_r_multi_ke"
    /\ \E m \in Inbound(this), c \in BOOLEAN :
          /\ rx' = m
          /\ LET r == process_r_multi_ke(Here, m, Env(c, KE_NONE, FALSE, FALSE, "ok", FALSE))
             IN  Returned("process_r_multi_ke", r, AfterProcess(r.w.this, r.st))
    /\ UNCHANGED nonceVars

BuildR ==
    /\ pc = "build" /\ this.build = "build_r"
    /\ \E k \in BOOLEAN, d \in DeriveAnswers, h \in BOOLEAN :
          LET r == build_r([Here EXCEPT !.message = NewMessage(rx.xchg)],
                           Env(FALSE, KE_NONE, FALSE, k, d, h))
          IN  Returned("build_r", r, AfterBuild(r.w.this, r.st))
    /\ UNCHANGED << rx, nonceVars >>

BuildRMultiKe ==
    /\ pc = "build" /\ this.build = "build_r_multi_ke"
    /\ \E k \in BOOLEAN, d \in DeriveAnswers :
          LET r == build_r_multi_ke([Here EXCEPT !.message = NewMessage(rx.xchg)],
                                    Env(FALSE, KE_NONE, FALSE, k, d, FALSE))
          IN  Returned("build_r_multi_ke", r, AfterBuild(r.w.this, r.st))
    /\ UNCHANGED << rx, nonceVars >>

PostBuildRIntermediate ==
    /\ pc = "post_build" /\ this.post_build = "post_build_r_intermediate"
    /\ \E d \in DeriveAnswers :
          LET r == post_build_r_intermediate(
                       Here, Env(FALSE, KE_NONE, FALSE, FALSE, d, FALSE))
          IN  Returned("post_build_r_intermediate", r,
                       AfterPostBuild(r.w.this, r.st))
    /\ UNCHANGED << rx, nonceVars >>

\* the task is moved to an IKE_SA between two exchanges: the initiator
\* before it builds or while it waits for the response, the responder while
\* it waits for a request
Migrate ==
    /\ pc \in (IF this.initiator THEN {"build", "await"} ELSE {"await"})
    /\ this' = migrate(this)
    /\ ike_sa' \in {ike_sa, NewIkeSa(this.initiator, this.old_sa)}
    /\ hook' = "migrate"
    /\ status' = "NONE"
    /\ UNCHANGED << message, derived, rx, pc, nonceVars >>

Next ==
    \/ BuildI
    \/ BuildIMultiKe
    \/ PreProcessI
    \/ ProcessI
    \/ ProcessIMultiKe
    \/ PostProcessIIntermediate
    \/ ProcessR
    \/ ProcessRMultiKe
    \/ BuildR
    \/ BuildRMultiKe
    \/ PostBuildRIntermediate
    \/ Migrate

Spec == Init /\ [][Next]_vars

(* ------------------------------------------------------------------ *)
(* get_lower_nonce on the two peers of one exchange                    *)
(* ------------------------------------------------------------------ *)

Bytes == {0, 1}

\* the nonces two peers may hold: a task with an empty nonce fails before
\* it completes the exchange
Nonces == UNION { [1..k -> Bytes] : k \in 1..MaxNonceLen }

\* the tasks of the two peers after they exchanged N_i and N_r
PeerTask(initiator, n) ==
    [ike_init_create(initiator, FALSE, DefaultSettings) EXCEPT
        !.my_nonce = IF initiator THEN n.n_i ELSE n.n_r,
        !.other_nonce = IF initiator THEN n.n_r ELSE n.n_i]

InitNonce ==
    /\ this = ike_init_create(TRUE, FALSE, DefaultSettings)
    /\ ike_sa = NewIkeSa(this.initiator, this.old_sa)
    /\ message = NewMessage("NONE")
    /\ derived = <<>>
    /\ rx = NoMsg
    /\ pc = "done"
    /\ hook = "NONE"
    /\ status = "NONE"
    /\ nonces \in [n_i : Nonces, n_r : Nonces]
    /\ lower = NoLower

GetLowerNonce ==
    /\ ~lower.set
    /\ lower' = [set |-> TRUE,
                 i |-> get_lower_nonce(PeerTask(TRUE, nonces)),
                 r |-> get_lower_nonce(PeerTask(FALSE, nonces))]
    /\ UNCHANGED << taskVars, nonces >>

NextNonce == GetLowerNonce

SpecNonce == InitNonce /\ [][NextNonce]_vars

(* ------------------------------------------------------------------ *)
(* The first exchange under any settings and configuration             *)
(* ------------------------------------------------------------------ *)

ExtInbound(t) ==
    { WithSpi(m, IF t.old_sa THEN PeerSpi ELSE 0) :
         m \in ExtMessages(InitExchange(t)) }

InitExt ==
    /\ this \in { ike_init_create(i, o, s) :
                      i \in BOOLEAN, o \in BOOLEAN, s \in Settings }
    /\ ike_sa \in IkeSas(this.initiator, this.old_sa)
    /\ message = NewMessage("NONE")
    /\ derived = <<>>
    /\ rx = NoMsg
    /\ pc = IF this.initiator THEN "build" ELSE "await"
    /\ hook = "NONE"
    /\ status = "NONE"
    /\ nonces = NoNonces
    /\ lower = NoLower

ExtPreProcessI ==
    /\ pc = "await" /\ this.pre_process = "pre_process_i"
    /\ \E m \in ExtInbound(this) :
          /\ rx' = m
          /\ LET r == pre_process_i(Here, m)
             IN  Returned("pre_process_i", r, AfterPreProcess(r.w.this, r.st))
    /\ UNCHANGED nonceVars

ExtProcessR ==
    /\ pc = "await" /\ this.process = "process_r"
    /\ \E m \in ExtInbound(this), c \in BOOLEAN, n \in BOOLEAN :
          /\ rx' = m
          /\ LET r == process_r(Here, m, Env(c, KE_NONE, n, FALSE, "ok", FALSE))
             IN  Returned("process_r", r, AfterProcess(r.w.this, r.st))
    /\ UNCHANGED nonceVars

NextExt ==
    \/ BuildI
    \/ ExtPreProcessI
    \/ ProcessI
    \/ ExtProcessR
    \/ BuildR

SpecExt == InitExt /\ [][NextExt]_vars

(* ------------------------------------------------------------------ *)
(* Properties                                                          *)
(* ------------------------------------------------------------------ *)

\* the step is a run of the hook or method named h: every action records
\* its name
Ran(h) == hook' = h

\* the hooks whose SUCCESS ends the task (pre_process answers SUCCESS for
\* every message it lets through)
Succeeded == status = SUCCESS /\ hook # "pre_process_i"

\* process_i() returns on an INVALID_KE_PAYLOAD or COOKIE notify of m
RetryResponse(t, m) ==
    LET i == FirstNotify(Decisives(t, m.notifies))
    IN  i # 0 /\ m.notifies[i].type \in {INVALID_KE_PAYLOAD, COOKIE}

PayloadTypes(msg) == { msg.payloads[i].pt : i \in 1 .. Len(msg.payloads) }

\* C1 (retry cap): retry counts the responses process_i() handled as
\* INVALID_KE_PAYLOAD or COOKIE, one each, and nothing else changes it, migrate
\* included; a build_i() that finds MAX_RETRIES of them returns FAILED and
\* leaves the message empty; a build_i() that finds fewer fails only because
\* no key exchange object or nonce could be created or because the KE payload
\* could not be built.
RetryCap ==
    [][ /\ Ran("process_i") =>
             this'.retry = this.retry + (IF RetryResponse(this, rx) THEN 1 ELSE 0)
        /\ ~Ran("process_i") => this'.retry = this.retry
        /\ Ran("build_i") =>
             IF this.retry >= MAX_RETRIES
             THEN status' = FAILED /\ message'.payloads = <<>>
             ELSE status' = FAILED =>
                     \/ this'.ke = NULL
                     \/ this'.my_nonce = <<>>
                     \/ "KE" \notin PayloadTypes(message')
      ]_vars

\* C1 witness: build_i() gave up after MAX_RETRIES retries, COOKIE and
\* INVALID_KE_PAYLOAD among them
RetryCapReached ==
    /\ hook = "build_i" /\ status = FAILED
    /\ this.retry = MAX_RETRIES
    /\ this.cookie # <<>>
    /\ this.ke # NULL /\ this.ke[1].method # this.ke_method
    /\ message.payloads = <<>>

PlanComplete(t) ==
    \A i \in KexSlots : t.key_exchanges[i].type # 0 => t.key_exchanges[i].done

\* C2 (KE plan completeness): when a build, process, post_build or
\* post_process hook returned SUCCESS, every populated slot of the plan is done.
PlanCompleteOnSuccess == Succeeded => PlanComplete(this)

\* C2 witness: SUCCESS with a plan of three key exchanges
PlanCompleteReached ==
    /\ Succeeded
    /\ this.key_exchanges[2].type # 0
    /\ this.ke_index = 3

Published == SelectSeq(derived, LAMBDA d : d.ok)

\* C3 as claimed: at SUCCESS derive_ike_keys() was called, and ike_keys
\* published, exactly once, whatever the number of key exchanges.
SingleDerivation == Succeeded => Len(derived) = 1 /\ Len(Published) = 1

\* C3 (derivations at SUCCESS): a rekeying derives once; a fresh IKE_SA
\* derives once per key exchange of its plan, every call succeeding.
DerivationsOnSuccess ==
    Succeeded =>
        /\ Len(derived) = (IF this.old_sa THEN 1 ELSE this.ke_index)
        /\ Len(Published) = Len(derived)
        /\ ~this.old_sa =>
              this.ke_index = Cardinality({ i \in KexSlots : this.key_exchanges[i].type # 0 })

\* C3 witness: a fresh IKE_SA with one additional key exchange succeeded
DerivationsReached ==
    /\ Succeeded /\ ~this.old_sa
    /\ this.ke_index = 2
    /\ Len(derived) = 2

\* the response carries a COOKIE notify equal to the cookie the task stores
DuplicateCookie(t, m) ==
    \E i \in 1 .. Len(m.notifies) :
        m.notifies[i].type = COOKIE /\ chunk_equals(m.notifies[i].chunk, t.cookie)

\* pre_process_i() reaches the duplicate COOKIE notify of m: no REDIRECT
\* notify that it returns on stands in front of it
DuplicateCookieFound(t, m) ==
    LET i == FirstNotify(PreDecisives(t, m.notifies))
    IN  i # 0 /\ m.notifies[i].type = COOKIE

RetryFields(t) == << t.retry, t.cookie, t.ke_method, t.my_nonce >>

\* C4 as claimed: pre_process_i() returns FAILED for every response with a
\* COOKIE notify equal to the stored cookie, and such a response changes
\* neither retry, the stored cookie, ke_method nor my_nonce.
DuplicateCookieRejected ==
    [][ /\ Ran("pre_process_i") /\ DuplicateCookie(this, rx') =>
              status' = FAILED /\ RetryFields(this') = RetryFields(this)
        /\ Ran("process_i") /\ DuplicateCookie(this, rx) =>
              RetryFields(this') = RetryFields(this)
      ]_vars

\* C4 (idempotent cookie): pre_process_i() never changes the task; it returns
\* FAILED for a response whose duplicate COOKIE notify it reaches, in which
\* case the response is not handed to process_i(); and process_i() sees a
\* response with a duplicate COOKIE notify only if, the task not rekeying, a
\* REDIRECT notify with the task's nonce stands in front of that COOKIE.
DuplicateCookieDiscarded ==
    [][ /\ Ran("pre_process_i") =>
              this' = this /\ ike_sa' = ike_sa /\ derived' = derived
        /\ Ran("pre_process_i") /\ DuplicateCookieFound(this, rx') =>
              status' = FAILED /\ pc' = "await"
        /\ Ran("process_i") /\ DuplicateCookie(this, rx) =>
              /\ ~this.old_sa
              /\ \E i \in 1 .. Len(rx.notifies) :
                    /\ rx.notifies[i].type = REDIRECT
                    /\ rx.notifies[i].gw
                    /\ rx.notifies[i].chunk = this.my_nonce
                    /\ \A j \in 1 .. i : ~( /\ rx.notifies[j].type = COOKIE
                                            /\ chunk_equals(rx.notifies[j].chunk,
                                                            this.cookie) )
      ]_vars

\* C4 witness: after a COOKIE retry the same COOKIE arrived again, alone and
\* behind other notifies, and pre_process_i() returned FAILED
DuplicateCookieSeen ==
    /\ hook = "pre_process_i" /\ status = FAILED /\ pc = "await"
    /\ this.retry >= 1
    /\ DuplicateCookieFound(this, rx)
    /\ Len(rx.notifies) >= 2

\* a is lexicographically smaller than b: at the first byte that differs, or
\* as a proper prefix of b
RECURSIVE LexLess(_, _)
LexLess(a, b) ==
    IF b = <<>> THEN FALSE
    ELSE IF a = <<>> THEN TRUE
    ELSE IF a[1] # b[1] THEN a[1] < b[1]
    ELSE LexLess(Tail(a), Tail(b))

LexMin(a, b) == IF LexLess(b, a) THEN b ELSE a

\* C5 (symmetry of nonces): the tasks of the two peers, holding the same pair
\* of nonces in exchanged roles, get the same lower nonce.
LowerNonceSymmetric == lower.set => lower.i = lower.r

\* the input on which the peers disagree: N_i is a proper prefix of N_r
LowerNonceDisagreement ==
    /\ lower.set
    /\ nonces.n_i = <<0>> /\ nonces.n_r = <<0, 1>>
    /\ lower.i = nonces.n_r /\ lower.r = nonces.n_i

\* C6 (lexicographic minimum): get_lower_nonce() returns the lexicographic
\* minimum of my_nonce and other_nonce, a proper prefix being the smaller one.
LowerNonceIsMinimum ==
    lower.set => /\ lower.i = LexMin(nonces.n_i, nonces.n_r)
                 /\ lower.r = LexMin(nonces.n_r, nonces.n_i)

\* the input on which the result is not the minimum: my_nonce is a proper
\* prefix of other_nonce and other_nonce is returned
LowerNonceNotMinimum ==
    /\ lower.set
    /\ nonces.n_i = <<1>> /\ nonces.n_r = <<1, 0>>
    /\ lower.i = <<1, 0>>

\* the message a process hook works on in this step: the responder's hooks
\* take it from the network, the initiator's after pre_process_i()
Processes ==
    \/ Ran("process_r") \/ Ran("process_r_multi_ke")
    \/ Ran("process_i") \/ Ran("process_i_multi_ke")

Received == IF Ran("process_r") \/ Ran("process_r_multi_ke") THEN rx' ELSE rx

\* the KE payload of m names another method than slot index of the plan,
\* where the plan has such a slot
MethodDiffers(m, plan, index) ==
    /\ m.ke # NULL
    /\ plan[index].type # 0
    /\ m.ke[1].method # plan[index].method

\* the hook hands the KE payload of the message to process_ke_payload(): a
\* proposal is selected, no notify ended process_i() before, and a request of
\* a follow-up exchange has the exchange type of that exchange
Examined ==
    /\ Ran("process_r") => this'.proposal # NULL
    /\ Ran("process_i") =>
          /\ FirstNotify(Decisives(this, rx.notifies)) = 0
          /\ this'.proposal # NULL
    /\ Ran("process_r_multi_ke") => rx'.xchg = exchange_type_multi_ke(this)

NothingDone ==
    /\ derived' = derived
    /\ this'.ke_index = this.ke_index
    /\ \A i \in KexSlots : this'.key_exchanges[i].done = this.key_exchanges[i].done

RespondsTo == Ran("build_r") \/ Ran("build_r_multi_ke")

PostHook == Ran("post_build_r_intermediate") \/ Ran("post_process_i_intermediate")

\* C7 (method consistency): every received KE payload whose method differs
\* from the method of the current slot of the plan sets ke_failed, the hooks
\* of that message end in FAILED (the initiator's process hook, the
\* responder's build hook, no post hook runs), and nothing is derived or
\* marked done.
MethodMismatchFails ==
    [][ /\ Processes /\ MethodDiffers(Received, this'.key_exchanges, this.ke_index) =>
              /\ this'.ke_failed
              /\ NothingDone
              /\ this.initiator => status' = FAILED
        /\ RespondsTo /\ MethodDiffers(rx, this.key_exchanges, this.ke_index) =>
              status' = FAILED /\ NothingDone
        /\ PostHook => ~MethodDiffers(rx, this.key_exchanges, this.ke_index)
      ]_vars

\* C7, as far as the code goes: a KE payload handed to process_ke_payload()
\* whose method differs from the method of the current slot sets ke_failed;
\* the initiator's process hook returns FAILED, the responder's build hook
\* for the same request does, no post hook runs with ke_failed set, and
\* nothing is derived or marked done.
MethodMismatchExamined ==
    [][ /\ Processes /\ Examined
              /\ MethodDiffers(Received, this'.key_exchanges, this.ke_index) =>
              /\ this'.ke_failed
              /\ NothingDone
              /\ IF this.initiator THEN status' = FAILED ELSE pc' = "build"
        /\ RespondsTo /\ this.ke_failed => status' = FAILED /\ NothingDone
        /\ PostHook => ~this.ke_failed
      ]_vars

\* C7: the request whose KE payload the responder does not examine: it names
\* another method than the slot the post_build hook then marked done, and
\* keys were derived
MethodMismatchDerived ==
    /\ hook = "post_build_r_intermediate" /\ status \in {NEED_MORE, SUCCESS}
    /\ ~this.old_sa
    /\ this.ke_index >= 2
    /\ this.key_exchanges[this.ke_index - 1].done
    /\ MethodDiffers(rx, this.key_exchanges, this.ke_index - 1)
    /\ rx.xchg # exchange_type_multi_ke(this)
    /\ Len(derived) = this.ke_index

\* C7: the responder answered FAILED to an IKE_INTERMEDIATE request whose KE
\* payload names another method than the second slot of the plan
MethodMismatchSeen ==
    /\ hook = "build_r_multi_ke" /\ status = FAILED
    /\ this.ke_failed
    /\ rx.xchg = exchange_type_multi_ke(this)
    /\ this.ke_index = 1
    /\ MethodDiffers(rx, this.key_exchanges, this.ke_index)
    /\ Len(derived) = 1

NoncePayloads(msg) ==
    SelectSeq(msg.payloads, LAMBDA pld : pld.pt = "NONCE")

\* C8 (nonce stability): the initiator's my_nonce changes only in a build_i()
\* that finds it empty, and every request build_i() completes carries my_nonce
\* in its one Nonce payload.
NonceStable ==
    [][ this.initiator =>
          /\ this'.my_nonce # this.my_nonce =>
                Ran("build_i") /\ this.my_nonce = <<>>
          /\ Ran("build_i") /\ status' = NEED_MORE =>
                /\ this'.my_nonce # <<>>
                /\ NoncePayloads(message') = << NoncePld(this'.my_nonce) >>
      ]_vars

\* C8 witness: the third request, after a COOKIE and an INVALID_KE_PAYLOAD
\* retry, carries the nonce of the first
NonceKeptOverRetries ==
    /\ hook = "build_i" /\ status = NEED_MORE
    /\ this.retry = 2
    /\ this.cookie # <<>>
    /\ this.ke_method = 31 /\ this.ke[1].method = 31
    /\ NoncePayloads(message) = << NoncePld(allocate_nonce(<<>>)) >>

\* C9 (rekeying defers derivation): when old_sa is set derive_ike_keys() is
\* called at most once, in the step that completes the last slot of the plan,
\* with the key exchange objects collected in kes and old_sa's SK_d and PRF;
\* unless migrate() dropped the proposal and the plan meanwhile, these are the
\* objects of all slots of the plan, in plan order; the hook returns SUCCESS if
\* the derivation succeeds and FAILED if not, and no hook that returns
\* NEED_MORE has derived.
RekeyDerivesLast ==
    [][ this.old_sa =>
          /\ Len(derived') <= 1
          /\ derived' # derived =>
                /\ derived = <<>>
                /\ PlanComplete(this')
                /\ LET d == derived'[1]
                   IN  /\ d.skd = "OLD"
                       /\ d.kes = this'.kes
                       /\ Len(d.kes) = this'.ke_index
                       /\ this'.proposal # NULL =>
                             /\ Len(d.kes) = Cardinality({ i \in KexSlots :
                                                 this'.key_exchanges[i].type # 0 })
                             /\ \A i \in 1 .. Len(d.kes) :
                                   d.kes[i].method = this'.key_exchanges[i - 1].method
                       /\ status' = IF d.ok THEN SUCCESS ELSE FAILED
          /\ status' = NEED_MORE => derived' = <<>>
          /\ status' = SUCCESS /\ ~Ran("pre_process_i") =>
                derived' # derived /\ derived'[1].ok
      ]_vars

\* C9 witness: a rekeying with three key exchanges derived once, at the end
RekeyDerivedLast ==
    /\ Succeeded /\ this.old_sa
    /\ Len(derived) = 1
    /\ derived[1].skd = "OLD"
    /\ Len(derived[1].kes) = 3

\* C10 (IKE_INTERMEDIATE derives in the post hooks): for a fresh IKE_SA
\* build_r_multi_ke() and process_i_multi_ke() derive nothing, leave ke_index
\* and the plan as they are; once the task uses the multi-KE hooks only
\* post_build_r_intermediate() and post_process_i_intermediate() derive,
\* advance ke_index or mark a slot done, and they run right after the build
\* or process hook of the same message returned NEED_MORE.
IntermediateDerivesInPostHooks ==
    [][ ~this.old_sa =>
          /\ Ran("build_r_multi_ke") \/ Ran("process_i_multi_ke") =>
                /\ derived' = derived
                /\ this'.ke_index = this.ke_index
                /\ this'.key_exchanges = this.key_exchanges
          /\ /\ InMultiKe(this)
             /\ \/ derived' # derived
                \/ this'.ke_index > this.ke_index
                \/ \E i \in KexSlots : /\ this'.key_exchanges[i].done
                                       /\ ~this.key_exchanges[i].done
             => PostHook
          /\ Ran("post_build_r_intermediate") =>
                hook = "build_r_multi_ke" /\ status = NEED_MORE /\ message' = message
          /\ Ran("post_process_i_intermediate") =>
                hook = "process_i_multi_ke" /\ status = NEED_MORE /\ rx' = rx
      ]_vars

\* C10 witness: the responder's post_build hook completed the second of three
\* key exchanges of a fresh IKE_SA
IntermediateDerived ==
    /\ hook = "post_build_r_intermediate" /\ status = NEED_MORE
    /\ ~this.old_sa
    /\ this.ke_index = 2
    /\ Len(derived) = 2
    /\ "KE" \in PayloadTypes(message)

(* ------------------------------------------------------------------ *)
(* The responder's answer to a key exchange method it did not expect   *)
(* ------------------------------------------------------------------ *)

\* the notifies of type `type` in an outbound message
NotifiesOf(msg, type) ==
    { i \in 1 .. Len(msg.payloads) :
        msg.payloads[i].pt = "NOTIFY" /\ msg.payloads[i].type = type }

\* build_r() runs, the proposal/nonce check passes and no REDIRECT is answered
BuildRPastRedirect ==
    /\ Ran("build_r")
    /\ this.proposal # NULL /\ this.other_nonce # <<>> /\ this.my_nonce # <<>>
    /\ NotifiesOf(message', REDIRECT) = {}

\* the group of the selected proposal
SelectedGroup == this.proposal[1][KEY_EXCHANGE_METHOD]

\* C11 as stated: past the proposal/nonce and redirect checks, a responder
\* without KE object, or whose ke_method is not the method of the selected
\* proposal, answers INVALID_KE_PAYLOAD with the group of the proposal and
\* build_r() returns FAILED
InvalidKeWheneverKeMissing ==
    [][ BuildRPastRedirect
        /\ (this.ke = NULL \/ ~has_transform(this.proposal[1], this.ke_method))
        => /\ status' = FAILED
           /\ \E i \in NotifiesOf(message', INVALID_KE_PAYLOAD) :
                  message'.payloads[i].chunk = htons(SelectedGroup) ]_vars

\* C11: past the proposal/nonce and redirect checks, a responder without KE
\* object, or whose ke_method is not the method of the selected proposal,
\* fails; it answers INVALID_KE_PAYLOAD with the group of the proposal, in
\* network byte order, when ke_method differs from that group, and
\* NO_PROPOSAL_CHOSEN when the KE object is missing although ke_method is that
\* group
InvalidKeOnOtherGroup ==
    [][ BuildRPastRedirect
        /\ (this.ke = NULL \/ ~has_transform(this.proposal[1], this.ke_method))
        => /\ status' = FAILED
           /\ IF this.ke_method # SelectedGroup
              THEN /\ \E i \in NotifiesOf(message', INVALID_KE_PAYLOAD) :
                          message'.payloads[i].chunk = htons(SelectedGroup)
                   /\ NotifiesOf(message', NO_PROPOSAL_CHOSEN) = {}
              ELSE /\ NotifiesOf(message', INVALID_KE_PAYLOAD) = {}
                   /\ message'.payloads =
                          <<NotifyPld(NO_PROPOSAL_CHOSEN, 0, <<>>)>> ]_vars

\* C11 witness: build_r() has answered a request whose KE payload was of
\* another method than the selected proposal's with INVALID_KE_PAYLOAD
InvalidKeAnswered ==
    /\ hook = "build_r" /\ status = FAILED
    /\ this.proposal # NULL /\ this.ke = NULL
    /\ rx.ke # NULL /\ rx.ke[1].method # this.proposal[1][KEY_EXCHANGE_METHOD]
    /\ \E i \in NotifiesOf(message, INVALID_KE_PAYLOAD) :
           message.payloads[i].chunk = htons(this.proposal[1][KEY_EXCHANGE_METHOD])

\* C12: a response of build_r() with an INVALID_KE_PAYLOAD notify carries no
\* other payload; no keys are derived for it, no slot of the plan is marked
\* done and the build/process hooks stay those of the initial exchange
InvalidKeAnswerIsBare ==
    [][ Ran("build_r") /\ NotifiesOf(message', INVALID_KE_PAYLOAD) # {}
        => /\ Len(message'.payloads) = 1
           /\ derived' = derived
           /\ this'.key_exchanges = this.key_exchanges
           /\ \A i \in KexSlots : ~this'.key_exchanges[i].done
           /\ this'.ke_index = this.ke_index
           /\ this'.build = "build_r" /\ this'.process = "process_r"
           /\ this'.post_build = "NULL" /\ this'.post_process = "NULL" ]_vars

\* C12 witness: a fresh IKE_SA's request without KE payload has been answered
\* by the INVALID_KE_PAYLOAD notify alone
InvalidKeAnsweredBare ==
    /\ hook = "build_r" /\ status = FAILED /\ ~this.old_sa
    /\ rx.ke = NULL /\ this.proposal # NULL
    /\ message.payloads =
           <<NotifyPld(INVALID_KE_PAYLOAD, 0,
                       htons(this.proposal[1][KEY_EXCHANGE_METHOD]))>>
    /\ derived = <<>>
    /\ this.build = "build_r" /\ this.process = "process_r"

(* ------------------------------------------------------------------ *)
(* Retries of the initiator                                            *)
(* ------------------------------------------------------------------ *)

\* the notify process_i() returns on is of the given type
Handled(t, m, type) ==
    LET i == FirstNotify(Decisives(t, m.notifies))
    IN  i # 0 /\ m.notifies[i].type = type

\* the notify process_i() returns on
HandledNotify(t, m) == m.notifies[FirstNotify(Decisives(t, m.notifies))]

\* the KE payloads of an outbound message
KePayloadsOf(msg) ==
    { i \in 1 .. Len(msg.payloads) : msg.payloads[i].pt = "KE" }

\* C13 (INVALID_KE_PAYLOAD retry): process_i() acting on an
\* INVALID_KE_PAYLOAD notify sets ke_method to the group of the notify, counts
\* a retry, resets the IKE_SA exactly when not rekeying and returns NEED_MORE,
\* touching nothing that SA, KE or Nonce payloads are parsed into; after every
\* build_i() that returns NEED_MORE the KE object is there, its method is
\* ke_method and the request has one KE payload of that method, which right
\* after such a retry is the group the peer asked for
InvalidKeRetry ==
    [][ /\ Ran("process_i") /\ Handled(this, rx, INVALID_KE_PAYLOAD)
           => /\ this' = [this EXCEPT
                             !.ke_method = HandledNotify(this, rx).group,
                             !.retry = @ + 1]
              /\ ike_sa' = IF this.old_sa THEN ike_sa ELSE ike_sa_reset(ike_sa)
              /\ derived' = derived
              /\ status' = NEED_MORE
        /\ Ran("build_i") /\ status' = NEED_MORE
           => /\ this'.ke # NULL
              /\ this'.ke[1].method = this'.ke_method
              /\ Cardinality(KePayloadsOf(message')) = 1
              /\ \A i \in KePayloadsOf(message') :
                     message'.payloads[i].num = this'.ke_method
        /\ /\ hook = "process_i" /\ Handled(this, rx, INVALID_KE_PAYLOAD)
           /\ Ran("build_i") /\ status' = NEED_MORE
           => \A i \in KePayloadsOf(message') :
                  message'.payloads[i].num = HandledNotify(this, rx).group
      ]_vars

\* C13 witness: the second request of an initiator that holds no cookie, built
\* after the retry that process_i() counted, carries a KE payload of method 31
\* made by a KE object of that method
InvalidKeRetried ==
    /\ hook = "build_i" /\ status = NEED_MORE
    /\ this.retry = 1 /\ this.cookie = <<>>
    /\ this.ke # NULL /\ this.ke[1].method = 31 /\ this.ke_method = 31
    /\ \E i \in KePayloadsOf(message) : message.payloads[i].num = 31

\* process_i() acting on a COOKIE notify stores its data, counts a retry and
\* returns NEED_MORE
CookieStored ==
    Ran("process_i") /\ Handled(this, rx, COOKIE)
    => /\ this'.cookie = HandledNotify(this, rx).chunk
       /\ this'.retry = this.retry + 1
       /\ status' = NEED_MORE

\* C14 as stated: process_i() acting on a COOKIE notify stores its data, counts
\* a retry and returns NEED_MORE, and the request build_i() builds next starts
\* with a COOKIE notify of that data
CookieAlwaysEchoed ==
    [][ /\ CookieStored
        /\ /\ hook = "process_i" /\ Handled(this, rx, COOKIE)
           /\ Ran("build_i") /\ status' = NEED_MORE
           => message'.payloads[1] =
                  NotifyPld(COOKIE, 0, HandledNotify(this, rx).chunk) ]_vars

\* C14 (cookie echo): process_i() acting on a COOKIE notify stores its data,
\* counts a retry and returns NEED_MORE; nothing else changes the stored
\* cookie, neither an INVALID_KE_PAYLOAD retry nor migrate; a request of
\* build_i() starts with one COOKIE notify of the stored cookie, in front of
\* the SA, KE and Nonce payloads, when the stored cookie is not empty, and has
\* no COOKIE notify when it is empty, as after a COOKIE notify without data
CookieEchoed ==
    [][ /\ CookieStored
        /\ this'.cookie # this.cookie
           => Ran("process_i") /\ Handled(this, rx, COOKIE)
        /\ Ran("build_i") /\ status' = NEED_MORE
           => IF this.cookie # <<>>
              THEN /\ message'.payloads[1] = NotifyPld(COOKIE, 0, this.cookie)
                   /\ NotifiesOf(message', COOKIE) = {1}
                   /\ \A i \in 1 .. Len(message'.payloads) :
                          message'.payloads[i].pt \in {"SA", "KE", "NONCE"}
                          => i > 1
              ELSE NotifiesOf(message', COOKIE) = {} ]_vars

\* C14 witness: the third request, after a COOKIE and then an
\* INVALID_KE_PAYLOAD notify, starts with the cookie and goes on with the SA,
\* KE and Nonce payloads
CookieEchoedAfterRetries ==
    /\ hook = "build_i" /\ status = NEED_MORE
    /\ this.retry = 2 /\ this.cookie = <<1>> /\ this.ke_method = 31
    /\ Len(message.payloads) = 4
    /\ message.payloads[1] = NotifyPld(COOKIE, 0, <<1>>)
    /\ message.payloads[2].pt = "SA"
    /\ message.payloads[3] = KePld(31)
    /\ message.payloads[4].pt = "NONCE"

(* ------------------------------------------------------------------ *)
(* REDIRECT                                                            *)
(* ------------------------------------------------------------------ *)

\* the notify pre_process_i() returns on is a REDIRECT
PreHandledRedirect(t, m) ==
    LET i == FirstNotify(PreDecisives(t, m.notifies))
    IN  i # 0 /\ m.notifies[i].type = REDIRECT

PreHandledNotify(t, m) == m.notifies[FirstNotify(PreDecisives(t, m.notifies))]

\* a REDIRECT notify whose data parses and whose nonce is the task's own
EchoesNonce(t, n) == n.gw /\ n.chunk # <<>> /\ n.chunk = t.my_nonce

\* C15 (redirect validation): when not rekeying, pre_process_i() coming upon a
\* REDIRECT notify returns SUCCESS if its data parses and its nonce is my_nonce
\* and FAILED otherwise; process_i() reaches the redirect handler only when not
\* rekeying and only for a REDIRECT notify that echoes my_nonce
RedirectValidated ==
    [][ /\ Ran("pre_process_i") /\ ~this.old_sa /\ PreHandledRedirect(this, rx')
           => status' = IF EchoesNonce(this, PreHandledNotify(this, rx'))
                        THEN SUCCESS ELSE FAILED
        /\ Ran("process_i") /\ Handled(this, rx, REDIRECT)
           => /\ ~this.old_sa
              /\ EchoesNonce(this, HandledNotify(this, rx)) ]_vars

\* C15 witness: process_i() has handed a REDIRECT that echoes the nonce of the
\* initiator to the redirect handler, which accepted it
RedirectFollowed ==
    /\ hook = "process_i" /\ status = NEED_MORE /\ ~this.old_sa
    /\ Handled(this, rx, REDIRECT)
    /\ EchoesNonce(this, HandledNotify(this, rx))
    /\ this.retry = 0

\* pre_process_i() has turned down a REDIRECT with another nonce
RedirectRefused ==
    /\ hook = "pre_process_i" /\ status = FAILED /\ ~this.old_sa
    /\ PreHandledRedirect(this, rx)
    /\ PreHandledNotify(this, rx).gw
    /\ PreHandledNotify(this, rx).chunk # this.my_nonce

(* ------------------------------------------------------------------ *)
(* migrate                                                             *)
(* ------------------------------------------------------------------ *)

\* C16 (migration frame): in whatever phase it is called, migrate() leaves the
\* task without proposal and without nonce of the peer, with an empty plan
\* (every slot zero, ke_index 0, no completed key exchanges) and ke_failed
\* reset, and with the my_nonce, cookie and retry it had before
MigrateFrame ==
    [][ Ran("migrate")
        => /\ this'.proposal = NULL
           /\ this'.other_nonce = <<>>
           /\ \A i \in KexSlots :
                  /\ this'.key_exchanges[i].type = 0
                  /\ this'.key_exchanges[i].method = 0
                  /\ ~this'.key_exchanges[i].done
           /\ this'.ke_index = 0
           /\ this'.kes = <<>>
           /\ ~this'.ke_failed
           /\ this'.my_nonce = this.my_nonce
           /\ this'.cookie = this.cookie
           /\ this'.retry = this.retry ]_vars

\* C16 witness: migrate() has run on an initiator in the middle of its
\* additional key exchanges, after a COOKIE retry and a derivation; the plan is
\* gone, nonce, cookie and retry counter are still there
MigratedMidExchange ==
    /\ hook = "migrate" /\ this.initiator
    /\ this.build = "build_i_multi_ke"
    /\ derived # <<>>
    /\ this.proposal = NULL /\ this.kes = <<>> /\ this.ke_index = 0
    /\ this.my_nonce # <<>> /\ this.cookie # <<>> /\ this.retry = 1

(* ------------------------------------------------------------------ *)
(* Order of the nonces                                                 *)
(* ------------------------------------------------------------------ *)

DerivingHooks ==
    { "build_r", "build_r_multi_ke", "post_build_r_intermediate",
      "process_i", "process_i_multi_ke", "post_process_i_intermediate" }

\* C17 (nonce order): a derivation is made in one of the six deriving hooks,
\* one per step, and is passed the nonce of the initiator first and that of the
\* responder second: (my_nonce, other_nonce) by an initiator and
\* (other_nonce, my_nonce) by a responder
NonceOrder ==
    [][ derived' # derived
        => /\ hook' \in DerivingHooks
           /\ Len(derived') = Len(derived) + 1
           /\ SubSeq(derived', 1, Len(derived)) = derived
           /\ LET d == derived'[Len(derived')]
              IN  IF this.initiator
                  THEN d.nonce_i = this'.my_nonce /\ d.nonce_r = this'.other_nonce
                  ELSE d.nonce_i = this'.other_nonce /\ d.nonce_r = this'.my_nonce
      ]_vars

\* C17 witness: a responder has derived keys after an additional key exchange
\* from the nonce it received, first, and its own, second, the two being
\* different
ResponderDerivedInOrder ==
    /\ hook = "post_build_r_intermediate" /\ ~this.initiator
    /\ Len(derived) >= 2
    /\ this.other_nonce # <<>> /\ this.my_nonce # this.other_nonce
    /\ derived[Len(derived)].nonce_i = this.other_nonce
    /\ derived[Len(derived)].nonce_r = this.my_nonce
    /\ derived[Len(derived)].ok

(* ------------------------------------------------------------------ *)
(* SPIs of a rekeyed IKE_SA                                            *)
(* ------------------------------------------------------------------ *)

\* the SA payloads of an outbound message
SaPayloadsOf(msg) ==
    { i \in 1 .. Len(msg.payloads) : msg.payloads[i].pt = "SA" }

\* process_payloads() runs on a message with a proposal to select
ProposalProcessed ==
    \/ Ran("process_r") /\ status' = NEED_MORE /\ rx'.sa # NULL
    \/ /\ Ran("process_i") /\ rx.sa # NULL
       /\ FirstNotify(Decisives(this, rx.notifies)) = 0

\* C18 (SPI in rekey): when rekeying, every proposal build_i() offers carries
\* the initiator SPI of the new IKE_SA and the proposal build_r() returns
\* carries its responder SPI; once a message with a selected proposal is
\* processed the SPI of that proposal is the responder SPI of the initiator's
\* SA id and the initiator SPI of the responder's, the SPI of the own end being
\* left alone; when not rekeying no hook changes the SA id
RekeySpi ==
    [][ /\ this.old_sa /\ Ran("build_i")
           => \A i \in SaPayloadsOf(message') :
                  \A k \in 1 .. Len(message'.payloads[i].props) :
                      get_spi(message'.payloads[i].props[k])
                          = ike_sa.id.initiator_spi
        /\ this.old_sa /\ Ran("build_r")
           => \A i \in SaPayloadsOf(message') :
                  /\ Len(message'.payloads[i].props) = 1
                  /\ get_spi(message'.payloads[i].props[1])
                         = ike_sa.id.responder_spi
        /\ this.old_sa /\ ProposalProcessed
           => IF this.initiator
              THEN /\ ike_sa'.id.responder_spi = get_spi(rx.sa[1])
                   /\ ike_sa'.id.initiator_spi = ike_sa.id.initiator_spi
              ELSE /\ ike_sa'.id.initiator_spi = get_spi(rx'.sa[1])
                   /\ ike_sa'.id.responder_spi = ike_sa.id.responder_spi
        /\ ~this.old_sa /\ ~Ran("migrate")
           => ike_sa'.id = ike_sa.id ]_vars

\* C18 witness: a rekeying responder has taken the initiator SPI from the
\* proposal of the request and answered with a proposal that carries its own
\* SPI
RekeySpiAnswered ==
    /\ hook = "build_r" /\ this.old_sa /\ status \in {SUCCESS, NEED_MORE}
    /\ ike_sa.id = [initiator_spi |-> PeerSpi, responder_spi |-> OwnSpi]
    /\ get_spi(rx.sa[1]) = PeerSpi
    /\ \E i \in SaPayloadsOf(message) :
           get_spi(message.payloads[i].props[1]) = OwnSpi

\* a rekeying initiator has offered its SPI and taken the responder SPI from
\* the proposal of the response
RekeySpiLearned ==
    /\ hook = "process_i" /\ this.old_sa /\ status \in {SUCCESS, NEED_MORE}
    /\ this.proposal # NULL
    /\ ike_sa.id = [initiator_spi |-> OwnSpi, responder_spi |-> PeerSpi]
    /\ \E i \in SaPayloadsOf(message) :
           \A k \in 1 .. Len(message.payloads[i].props) :
               get_spi(message.payloads[i].props[k]) = OwnSpi

(* ------------------------------------------------------------------ *)
(* The cursor of the plan                                              *)
(* ------------------------------------------------------------------ *)

\* the slots of the plan that hold a key exchange
Populated(t) == { i \in KexSlots : t.key_exchanges[i].type # 0 }

\* C19 as stated: ke_index is at most the number of populated slots of the
\* plan, and every slot marked done is populated
CursorWithinPlan ==
    /\ 0 <= this.ke_index
    /\ this.ke_index <= Cardinality(Populated(this))
    /\ Cardinality(Populated(this)) <= MAX_KEY_EXCHANGES
    /\ \A i \in KexSlots : this.key_exchanges[i].done => i \in Populated(this)

\* the bound holds as long as the task has the proposal its plan was made from
CursorWithinPlanOfProposal == this.proposal # NULL => CursorWithinPlan

\* C19 witness: after a migrate between two additional key exchanges had
\* emptied the plan, the key exchange was completed once more: the first slot
\* is marked done without holding a key exchange and ke_index is beyond the
\* populated slots, of which there are none
CursorBeyondPlan ==
    /\ this.proposal = NULL
    /\ Populated(this) = {}
    /\ this.ke_index = 1
    /\ this.key_exchanges[0].done
    /\ hook \in {"post_build_r_intermediate", "post_process_i_intermediate",
                 "process_i_multi_ke", "build_r_multi_ke"}

(* ------------------------------------------------------------------ *)
(* The KE payload of an additional key exchange                        *)
(* ------------------------------------------------------------------ *)

\* the message built in this step has exactly one KE payload, of the method of
\* the slot ke_index pointed to when the build began
OneKeForPendingSlot ==
    /\ Cardinality(KePayloadsOf(message')) = 1
    /\ \A i \in KePayloadsOf(message') :
           message'.payloads[i].num = this.key_exchanges[this.ke_index].method

\* C20 as stated: a message that build_i_multi_ke() or build_r_multi_ke()
\* builds without returning FAILED carries exactly one KE payload, of the
\* method of the pending slot of the plan, whatever was received before
MultiKeBuildForPendingSlot ==
    [][ /\ Ran("build_i_multi_ke") \/ Ran("build_r_multi_ke")
        /\ status' \in {SUCCESS, NEED_MORE}
        => OneKeForPendingSlot ]_vars

\* the requests of the initiator do carry the KE payload of the pending slot
MultiKeRequestForPendingSlot ==
    [][ Ran("build_i_multi_ke") /\ status' \in {SUCCESS, NEED_MORE}
        => OneKeForPendingSlot ]_vars

\* and so do the responses to a request of the expected exchange type that
\* had a KE payload, as long as the task has its proposal
MultiKeResponseToExaminedRequest ==
    [][ /\ Ran("build_r_multi_ke") /\ status' \in {SUCCESS, NEED_MORE}
        /\ this.proposal # NULL
        /\ rx.xchg = exchange_type_multi_ke(this) /\ rx.ke # NULL
        => OneKeForPendingSlot ]_vars

\* C20 witness: a responder with the plan (14, 31), its first key exchange
\* done, has answered a request that was not of the expected exchange type
\* with a KE payload of method 14, the pending slot being that of method 31
MultiKeStaleAnswer ==
    /\ hook = "build_r_multi_ke" /\ status = NEED_MORE /\ ~this.old_sa
    /\ this.proposal # NULL
    /\ rx.xchg # exchange_type_multi_ke(this)
    /\ this.ke_index = 1
    /\ this.key_exchanges[1].method = 31
    /\ message.payloads = <<KePld(14)>>

(* ------------------------------------------------------------------ *)
(* What completes a slot of the plan                                   *)
(* ------------------------------------------------------------------ *)

\* this step marks slot i of the plan done
SlotCompleted(i) == ~this.key_exchanges[i].done /\ this'.key_exchanges[i].done

\* the key exchange object key_exchange_done() completed in this step: the one
\* it appended to kes when rekeying, the current one otherwise
CompletedKe == IF this.old_sa THEN <<this'.kes[Len(this'.kes)]>> ELSE this.ke

\* the message of the current round has a KE payload of the method of slot i
\* whose public value the current key exchange object took
KeApplied(i) ==
    /\ rx.ke # NULL
    /\ rx.ke[1].method = this'.key_exchanges[i].method
    /\ rx.ke[1].valid
    /\ CompletedKe # NULL /\ CompletedKe[1].pub

\* C21 as stated: a slot is marked done only in the round of a message that
\* had a KE payload of the method of that slot whose public value the current
\* key exchange object took; a message without KE payload completes no slot
SlotDoneOnlyAfterKe ==
    [][ \A i \in KexSlots : SlotCompleted(i) => KeApplied(i) ]_vars

\* the responder's first build completes the first slot only for a request
\* with such a KE payload
FirstSlotDoneOnlyAfterKe ==
    [][ Ran("build_r") => \A i \in KexSlots : SlotCompleted(i) => KeApplied(i)
      ]_vars

\* C21 witness: an initiator has accepted a response with SA and Nonce payload
\* but without KE payload: the first slot of its plan is done and the key
\* exchange object never took a public value
SlotDoneWithoutKe ==
    /\ hook = "process_i" /\ status \in {SUCCESS, NEED_MORE}
    /\ rx.ke = NULL /\ rx.sa # NULL
    /\ this.proposal # NULL
    /\ this.key_exchanges[0].type = KEY_EXCHANGE_METHOD
    /\ this.key_exchanges[0].done
    /\ this.ke_index = 1

(* ------------------------------------------------------------------ *)
(* Messages of another exchange type in the multi-KE phase             *)
(* ------------------------------------------------------------------ *)

\* a hook of the multi-KE phase handles, in this step, a message that is not
\* of the exchange type of that phase
HandlesUnexpectedType ==
    \/ Ran("process_r_multi_ke") /\ rx'.xchg # exchange_type_multi_ke(this)
    \/ /\ \/ Ran("process_i_multi_ke") \/ Ran("post_process_i_intermediate")
          \/ Ran("build_r_multi_ke") \/ Ran("post_build_r_intermediate")
       /\ rx.xchg # exchange_type_multi_ke(this)

\* the step leaves the state of the key exchanges alone
KeyExchangesUntouched ==
    /\ this'.ke_index = this.ke_index
    /\ \A i \in KexSlots : this'.key_exchanges[i].done = this.key_exchanges[i].done
    /\ this'.ke = this.ke
    /\ this'.ke_failed = this.ke_failed
    /\ this'.kes = this.kes
    /\ derived' = derived

\* C22 as stated: in the multi-KE phase the hooks that handle a message of
\* another exchange type than the expected one (process, and the responder's
\* build and post_build of that round) change none of ke_index, the done
\* flags, ke, ke_failed and kes, and derive nothing
UnexpectedTypeIgnored ==
    [][ HandlesUnexpectedType => KeyExchangesUntouched ]_vars

\* the process hook of the responder does ignore such a request
UnexpectedTypeNotProcessed ==
    [][ Ran("process_r_multi_ke") /\ rx'.xchg # exchange_type_multi_ke(this)
        => this' = this /\ derived' = derived /\ status' = NEED_MORE ]_vars

\* C22 witness: the post_build hook of a round whose request was of another
\* exchange type has completed the second slot of the plan and derived keys
UnexpectedTypeCompleted ==
    /\ hook = "post_build_r_intermediate" /\ ~this.old_sa
    /\ this.proposal # NULL
    /\ rx.xchg # exchange_type_multi_ke(this)
    /\ this.ke_index = 2 /\ this.key_exchanges[1].done
    /\ Len(derived) = 2

(* ------------------------------------------------------------------ *)
(* The notify of a failed response                                     *)
(* ------------------------------------------------------------------ *)

ErrorNotifies == {NO_PROPOSAL_CHOSEN, INVALID_KE_PAYLOAD, INVALID_SYNTAX, REDIRECT}

\* the outbound message has a notify that tells the peer of the failure
HasErrorNotify(msg) ==
    \E i \in 1 .. Len(msg.payloads) :
        msg.payloads[i].pt = "NOTIFY" /\ msg.payloads[i].type \in ErrorNotifies

\* C23 as stated: a build hook of the responder that returns FAILED has added
\* a NO_PROPOSAL_CHOSEN, INVALID_KE_PAYLOAD, INVALID_SYNTAX or REDIRECT notify
\* to the response, also when the KE payload could not be created
FailedResponseNotifies ==
    [][ /\ Ran("build_r") \/ Ran("build_r_multi_ke")
        /\ status' = FAILED
        => HasErrorNotify(message') ]_vars

\* the first build hook does so
FailedFirstResponseNotifies ==
    [][ Ran("build_r") /\ status' = FAILED => HasErrorNotify(message') ]_vars

\* C23 witness: build_r_multi_ke() has returned FAILED with a key exchange
\* object and without ke_failed, the KE payload not having been created, and
\* the response is empty
FailedResponseWithoutNotify ==
    /\ hook = "build_r_multi_ke" /\ status = FAILED
    /\ this.ke # NULL /\ ~this.ke_failed
    /\ message.payloads = <<>>

(* ------------------------------------------------------------------ *)
(* REDIRECT by the responder                                           *)
(* ------------------------------------------------------------------ *)

\* the request has a REDIRECT_SUPPORTED notify or a REDIRECTED_FROM notify
\* whose data parses
AnnouncesRedirection(m) ==
    \E i \in 1 .. Len(m.notifies) :
        \/ m.notifies[i].type = REDIRECT_SUPPORTED
        \/ m.notifies[i].type = REDIRECTED_FROM /\ m.notifies[i].gw

\* C24 (redirect gating): build_r() answers with a REDIRECT notify only when
\* the task is not rekeying, the request it processed had a REDIRECT_SUPPORTED
\* or a parsable REDIRECTED_FROM notify, and a proposal and both nonces are
\* there; the notify carries the nonce of the peer and is the only payload of
\* the response, build_r() returns FAILED, leaves the task as it was and
\* derives nothing, also where it would otherwise have to answer
\* INVALID_KE_PAYLOAD
RedirectGated ==
    [][ Ran("build_r") /\ NotifiesOf(message', REDIRECT) # {}
        => /\ ~this.old_sa
           /\ AnnouncesRedirection(rx)
           /\ this.proposal # NULL
           /\ this.other_nonce # <<>> /\ this.my_nonce # <<>>
           /\ status' = FAILED
           /\ message'.payloads = <<NotifyPld(REDIRECT, 0, this.other_nonce)>>
           /\ this' = this
           /\ derived' = derived ]_vars

\* C24 witness: a request with REDIRECT_SUPPORTED but without KE payload, for
\* which INVALID_KE_PAYLOAD would be due, has been answered with the REDIRECT
\* notify alone
RedirectedBeforeInvalidKe ==
    /\ hook = "build_r" /\ status = FAILED /\ ~this.old_sa
    /\ \E i \in 1 .. Len(rx.notifies) : rx.notifies[i].type = REDIRECT_SUPPORTED
    /\ this.proposal # NULL /\ this.ke = NULL
    /\ this.ke_method # this.proposal[1][KEY_EXCHANGE_METHOD]
    /\ message.payloads = <<NotifyPld(REDIRECT, 0, this.other_nonce)>>
    /\ this.other_nonce # <<>>

(* ------------------------------------------------------------------ *)
(* REDIRECT in process_i                                               *)
(* ------------------------------------------------------------------ *)

\* a message without its REDIRECT notifies
WithoutRedirect(m) ==
    [m EXCEPT !.notifies = SelectSeq(@, LAMBDA n : n.type # REDIRECT)]

\* this step of process_i() ends as process_i() ends for message m, for some
\* answers of the collaborators
EndsAsFor(m) ==
    \E d \in DeriveAnswers, h \in BOOLEAN :
        LET r == process_i(Here, m, Env(FALSE, KE_NONE, FALSE, FALSE, d, h))
        IN  /\ this' = r.w.this
            /\ ike_sa' = r.w.ike_sa
            /\ derived' = r.w.derived
            /\ status' = r.st

\* C25 (REDIRECT in process_i): process_i() acts on a REDIRECT notify only
\* when not rekeying; it then returns what the redirect handler answers,
\* NEED_MORE or FAILED, leaving the task, retry included, as it was, without
\* selecting a proposal, storing a nonce or deriving; when rekeying a response
\* with a REDIRECT notify is processed as the same response without it
RedirectHandled ==
    [][ /\ Ran("process_i") /\ Handled(this, rx, REDIRECT)
           => /\ ~this.old_sa
              /\ status' \in {NEED_MORE, FAILED}
              /\ this' = this
              /\ derived' = derived
        /\ Ran("process_i") /\ this.old_sa
           => EndsAsFor(WithoutRedirect(rx)) ]_vars

\* C25 witness: a rekeying initiator has completed its key exchange on a
\* response that had a REDIRECT notify in front of SA, KE and Nonce payload
RedirectSkippedInRekey ==
    /\ hook = "process_i" /\ this.old_sa /\ status \in {SUCCESS, NEED_MORE}
    /\ \E i \in 1 .. Len(rx.notifies) : rx.notifies[i].type = REDIRECT
    /\ this.proposal = rx.sa /\ rx.sa # NULL
    /\ this.other_nonce = rx.nonce
    /\ this.key_exchanges[0].done

\* the redirect handler has turned down a REDIRECT that echoed the nonce
RedirectDeclined ==
    /\ hook = "process_i" /\ ~this.old_sa /\ status = FAILED
    /\ Handled(this, rx, REDIRECT)
    /\ this.proposal = NULL /\ this.retry = 0

(* ------------------------------------------------------------------ *)
(* Errors the peer signals                                             *)
(* ------------------------------------------------------------------ *)

\* a notify of an error type other than INVALID_KE_PAYLOAD
PeerError(n) == n.type < MAX_ERROR_NOTIFY + 1 /\ n.type # INVALID_KE_PAYLOAD

\* a notify that ends the loop of process_i()
Settles(t, n) ==
    \/ n.type \in {INVALID_KE_PAYLOAD, COOKIE}
    \/ n.type = REDIRECT /\ ~t.old_sa
    \/ PeerError(n)

\* the first notify of m, in message order, that ends the loop is an error of
\* the peer
PeerErrorFirst(t, m) ==
    \E i \in 1 .. Len(m.notifies) :
        /\ PeerError(m.notifies[i])
        /\ \A j \in 1 .. (i - 1) : ~Settles(t, m.notifies[j])

\* the first notify of m that ends the loop asks for a retry
RetryFirst(t, m) ==
    \E i \in 1 .. Len(m.notifies) :
        /\ m.notifies[i].type \in {INVALID_KE_PAYLOAD, COOKIE}
        /\ \A j \in 1 .. (i - 1) : ~Settles(t, m.notifies[j])

\* C26 (peer-signalled errors): process_i() goes through the notifies in
\* message order and the first that settles decides; if that is a notify of a
\* type below 16384 other than INVALID_KE_PAYLOAD, process_i() returns FAILED
\* and leaves task and IKE_SA as they were (no proposal, no nonce stored, retry
\* unchanged) and derives nothing; a response adds one to retry if the notify
\* that decides is INVALID_KE_PAYLOAD or COOKIE, and nothing otherwise
PeerErrorFails ==
    [][ Ran("process_i")
        => /\ PeerErrorFirst(this, rx)
              => /\ status' = FAILED
                 /\ this' = this
                 /\ ike_sa' = ike_sa
                 /\ derived' = derived
           /\ this'.retry = this.retry + (IF RetryFirst(this, rx) THEN 1 ELSE 0)
      ]_vars

\* C26 witness: a response with a notify of type 16383 in front of acceptable
\* SA, KE and Nonce payloads has been turned down unparsed
PeerErrorBeforeBody ==
    /\ hook = "process_i" /\ status = FAILED
    /\ rx.notifies = << PlainNotify(MAX_ERROR_NOTIFY) >>
    /\ rx.sa # NULL /\ rx.ke # NULL /\ rx.nonce # <<>>
    /\ this.proposal = NULL /\ this.other_nonce = <<>>
    /\ derived = <<>>

\* a response with a notify of type 16384 in front of the same payloads has
\* been accepted
StatusNotifySkipped ==
    /\ hook = "process_i" /\ status \in {SUCCESS, NEED_MORE}
    /\ rx.notifies = << PlainNotify(MAX_ERROR_NOTIFY + 1) >>
    /\ this.proposal # NULL


(* ------------------------------------------------------------------ *)
(* What migrate() resets                                               *)
(* ------------------------------------------------------------------ *)

\* C27 (migration reset): after migrate() every field of the task other than
\* retry and cookie has the value ike_init_create() gives it: no proposal, no
\* nonce of the peer, no own nonce, no key exchange object, ke_method KE_NONE,
\* ke_failed FALSE, an empty plan with ke_index 0, no completed key exchanges,
\* and the build, process and post hooks of the initial phase
MigrateResetsAllButRetryAndCookie ==
    [][ Ran("migrate")
        => this' = [ike_init_create(this.initiator, this.old_sa,
                                    [signature_authentication |->
                                         this.signature_authentication,
                                     follow_redirects |-> this.follow_redirects])
                        EXCEPT !.retry = this.retry,
                               !.cookie = this.cookie] ]_vars

\* what migrate() does not assign: the own nonce, the key exchange object and
\* its method, and the five hooks stay as they were before the call
MigrateKeepsRequestState ==
    [][ Ran("migrate")
        => /\ this'.my_nonce = this.my_nonce
           /\ this'.ke = this.ke
           /\ this'.ke_method = this.ke_method
           /\ this'.build = this.build
           /\ this'.process = this.process
           /\ this'.pre_process = this.pre_process
           /\ this'.post_build = this.post_build
           /\ this'.post_process = this.post_process ]_vars

\* C27 witness: migrate() has run on an initiator that had switched to its
\* additional key exchanges; the plan is empty, yet the task still has the
\* multi-KE hooks, its nonce, a key exchange object and the method of it
MigratedWithMultiKeHooks ==
    /\ hook = "migrate" /\ this.initiator
    /\ this.build = "build_i_multi_ke"
    /\ this.process = "process_i_multi_ke"
    /\ \A i \in KexSlots : this.key_exchanges[i].method = 0
    /\ this.ke_index = 0
    /\ this.my_nonce # <<>>
    /\ this.ke # NULL
    /\ this.ke_method # KE_NONE


(* ------------------------------------------------------------------ *)
(* Announcing the support of redirection                               *)
(* ------------------------------------------------------------------ *)

\* C28 as stated: a request build_i() has built carries a REDIRECT_SUPPORTED
\* notify exactly when the task is not rekeying and follow_redirects is set
RedirectSupportedWheneverFollowing ==
    [][ Ran("build_i") /\ status' = NEED_MORE
        => /\ this.initiator
           /\ NotifiesOf(message', REDIRECT_SUPPORTED) # {}
                 <=> ~this.old_sa /\ this.follow_redirects ]_vars

\* C28 (REDIRECT_SUPPORTED): a request build_i() has built carries one
\* REDIRECT_SUPPORTED notify exactly when the task is not rekeying,
\* follow_redirects is set and the IKE_SA was not redirected from another
\* gateway; if it was, the request carries one REDIRECTED_FROM notify in its
\* place; a response build_r() has built carries neither
RedirectSupportAnnounced ==
    [][ /\ Ran("build_i") /\ status' = NEED_MORE
           => LET following == ~this.old_sa /\ this.follow_redirects
              IN  /\ this.initiator
                  /\ Cardinality(NotifiesOf(message', REDIRECT_SUPPORTED)) =
                         (IF following /\ ~ike_sa.redirected_from THEN 1 ELSE 0)
                  /\ Cardinality(NotifiesOf(message', REDIRECTED_FROM)) =
                         (IF following /\ ike_sa.redirected_from THEN 1 ELSE 0)
        /\ Ran("build_r")
           => /\ NotifiesOf(message', REDIRECT_SUPPORTED) = {}
              /\ NotifiesOf(message', REDIRECTED_FROM) = {} ]_vars

\* C28 witness: the request of an initiator that follows redirects and whose
\* IKE_SA was redirected here has a REDIRECTED_FROM notify and no
\* REDIRECT_SUPPORTED notify
RedirectedFromAnnounced ==
    /\ hook = "build_i" /\ status = NEED_MORE
    /\ ~this.old_sa /\ this.follow_redirects /\ ike_sa.redirected_from
    /\ NotifiesOf(message, REDIRECTED_FROM) # {}
    /\ NotifiesOf(message, REDIRECT_SUPPORTED) = {}

\* the request of an initiator that does not follow redirects has neither
RedirectSupportWithheld ==
    /\ hook = "build_i" /\ status = NEED_MORE
    /\ ~this.old_sa /\ ~this.follow_redirects
    /\ "KE" \in PayloadTypes(message)
    /\ NotifiesOf(message, REDIRECTED_FROM) = {}
    /\ NotifiesOf(message, REDIRECT_SUPPORTED) = {}


(* ------------------------------------------------------------------ *)
(* Extensions enabled while parsing                                    *)
(* ------------------------------------------------------------------ *)

\* the step is a process hook that has parsed the payloads of the message:
\* process_r() unless it failed to generate its nonce, process_i() unless it
\* returned on a notify
Parsed ==
    \/ Ran("process_r") /\ status' = NEED_MORE
    \/ Ran("process_i") /\ FirstNotify(Decisives(this, rx.notifies)) = 0

RekeyGatedExtensions == {"EXT_PPK", "EXT_IKE_REDIRECTION", "EXT_IKE_CHILDLESS"}

\* C29 (extension gating): only a process hook that parses the payloads
\* enables extensions; whatever the message, a rekeying task enables neither
\* EXT_PPK, EXT_IKE_REDIRECTION nor EXT_IKE_CHILDLESS and a responder does not
\* enable EXT_IKE_CHILDLESS; a task that is not rekeying has
\* EXT_IKE_REDIRECTION after parsing exactly if it had it before or the
\* message has a REDIRECT_SUPPORTED notify or a REDIRECTED_FROM notify whose
\* gateway parses
ExtensionsGated ==
    [][ /\ ike_sa'.ext # ike_sa.ext => Parsed
        /\ Ran("process_r") \/ Ran("process_i")
           => /\ ike_sa.ext \subseteq ike_sa'.ext
              /\ this.old_sa
                 => ike_sa'.ext \cap RekeyGatedExtensions
                        = ike_sa.ext \cap RekeyGatedExtensions
              /\ ~this.initiator
                 => ("EXT_IKE_CHILDLESS" \in ike_sa'.ext
                        <=> "EXT_IKE_CHILDLESS" \in ike_sa.ext)
        /\ Parsed /\ ~this.old_sa
           => ("EXT_IKE_REDIRECTION" \in ike_sa'.ext
                  <=> \/ "EXT_IKE_REDIRECTION" \in ike_sa.ext
                      \/ AnnouncesRedirection(rx')) ]_vars

\* C29 witness: a rekeying responder has parsed a request with a USE_PPK
\* notify in front of SA, KE and Nonce payload and has not enabled EXT_PPK
PpkLeftDisabledInRekey ==
    /\ hook = "process_r" /\ status = NEED_MORE
    /\ this.old_sa /\ this.proposal # NULL
    /\ \E i \in 1 .. Len(rx.notifies) : rx.notifies[i].type = USE_PPK
    /\ "EXT_PPK" \notin ike_sa.ext

\* a responder that is not rekeying has enabled EXT_IKE_REDIRECTION on a
\* request whose only notify is a REDIRECTED_FROM with a gateway that parses
RedirectedFromEnables ==
    /\ hook = "process_r" /\ ~this.old_sa
    /\ rx.notifies = << Notify(REDIRECTED_FROM, KE_NONE, <<>>, TRUE) >>
    /\ "EXT_IKE_REDIRECTION" \in ike_sa.ext

\* it has not on one with a gateway that does not parse, while the USE_PPK
\* notify behind it has enabled EXT_PPK
UnparsedRedirectedFromIgnored ==
    /\ hook = "process_r" /\ ~this.old_sa
    /\ rx.notifies = << Notify(REDIRECTED_FROM, KE_NONE, <<>>, FALSE),
                        PlainNotify(USE_PPK) >>
    /\ ike_sa.ext = {"EXT_PPK"}

\* an initiator has enabled EXT_IKE_CHILDLESS, a responder has not
ChildlessOnInitiatorOnly ==
    /\ hook \in {"process_i", "process_r"} /\ ~this.old_sa
    /\ \E i \in 1 .. Len(rx.notifies) :
           rx.notifies[i].type = CHILDLESS_IKEV2_SUPPORTED
    /\ status \in {SUCCESS, NEED_MORE}
    /\ "EXT_IKE_CHILDLESS" \in ike_sa.ext <=> this.initiator


(* ------------------------------------------------------------------ *)
(* Who holds the key exchange objects                                  *)
(* ------------------------------------------------------------------ *)

\* destroy(): the key exchange objects it releases, the one in ke if there is
\* one, then, in clear_key_exchanges(), those in kes
destroy(t) == t.ke \o t.kes

\* the hooks that call key_exchange_done()
CompletingHooks ==
    { "process_i", "process_i_multi_ke", "post_process_i_intermediate",
      "build_r", "build_r_multi_ke", "post_build_r_intermediate" }

\* C30 (single ownership): a task that is not rekeying holds its key exchange
\* object in ke and nothing in kes; a rekeying task holds in kes one object
\* for each key exchange it has completed; kes changes only when migrate()
\* empties it and when a hook that completes a key exchange of a rekeying
\* moves the object of ke to its end, leaving ke empty, so that no object is
\* in ke and in kes and destroy() releases as many objects after the move as
\* before it
KeHeldOnce ==
    [][ /\ ~this'.old_sa => this'.kes = <<>>
        /\ this'.old_sa => Len(this'.kes) = this'.ke_index
        /\ this'.kes # this.kes
           => IF Ran("migrate")
              THEN this'.kes = <<>> /\ this'.ke = this.ke
              ELSE /\ this.old_sa /\ hook' \in CompletingHooks
                   /\ this.ke # NULL /\ this'.ke = NULL
                   /\ Len(this'.kes) = Len(this.kes) + 1
                   /\ SubSeq(this'.kes, 1, Len(this.kes)) = this.kes
                   /\ this'.kes[Len(this'.kes)].method = this.ke[1].method
                   /\ Len(destroy(this')) = Len(destroy(this)) ]_vars

\* C30 witness: a rekeying initiator has completed two key exchanges; kes
\* holds the two objects and ke is empty
TwoKesMoved ==
    /\ hook = "process_i_multi_ke" /\ this.old_sa
    /\ Len(this.kes) = 2 /\ this.ke = NULL
    /\ this.ke_index = 2

====
